---- MODULE Spec2Model ----
(***************************************************************************)
(* Model of the memory server: the SQLite store (memories table, vector    *)
(* table, AUTOINCREMENT counter, write lock and transactions), the LRU     *)
(* embedding cache and the MemoryService operations, run by several        *)
(* threads whose collaborator calls interleave.                            *)
(***************************************************************************)
EXTENDS Integers, Sequences, FiniteSets, TLC

\* ------------------------------------------------------------------ bounds
NumThreads == 2
NumContents == 2
MaxId == 2
MaxAccess == 1
Dim == 2
max_size == 2
MaxLimit == 1
NumExtraKeys == 1
MaxCacheOps == 5
MaxThreadOps == 1
MaxCands == 3
MaxTagLen == 2
NumRows == 3

Threads == 1..NumThreads
Contents == 1..NumContents

\* -------------------------------------------------------- program constants
NoId == 0
EmptyContent == 0
Unit == 100
dedup_similarity_threshold == 90
retrieval_similarity_threshold == 70
near_duplicate_limit == 5
auto_check == TRUE
ValidPriorities == {"CORE", "HIGH", "NORMAL", "LOW"}
PriorityInputs == {"NORMAL", "URGENT"}

\* ----------------------------------------------------------------- helpers
Put(f, k, v) == [x \in (DOMAIN f) \cup {k} |-> IF x = k THEN v ELSE f[x]]

Drop(f, k) == [x \in (DOMAIN f) \ {k} |-> f[x]]

MaxOf(S) == IF S = {} THEN 0 ELSE CHOOSE m \in S : \A x \in S : x <= m

ISqrt(n) == CHOOSE r \in 0..n : r * r <= n /\ n < (r + 1) * (r + 1)

RECURSIVE SumSq(_, _, _)
SumSq(u, v, i) ==
    IF i = 0 THEN 0 ELSE (u[i] - v[i]) * (u[i] - v[i]) + SumSq(u, v, i - 1)

\* sha256(content).hexdigest(): injective on the contents in play
generate_content_hash(c) == <<"sha256", c>>

\* variant: every token passes for a priority
validate_priority_any(p) == TRUE

validate_priority(p) == p \in ValidPriorities

\* the embedding model: a vector of the configured dimension, in units of
\* 1/Unit; contents c and c+1 lie at distance 0.10 from each other
generate_embedding(c) ==
    [i \in 1..Dim |-> IF i = 1 THEN Unit ELSE IF i = 2 THEN 10 * (c - 1) ELSE 0]

get_dimension == Dim

\* the width of the embedding column of vec_memories
vec_dimension == Dim

\* ------------------------------------------------------------------- store
EmptyDb == [memories |-> <<>>, vec |-> <<>>, seq |-> 0]

NewRow(c, h, p, d) ==
    [content |-> c, content_hash |-> h, priority |-> p,
     embedding_dimension |-> d, access_count |-> 0, last_accessed_at |-> FALSE,
     tags |-> <<>>, created_at |-> 0]

check_duplicate_hash_miss(d, h) == NoId

check_duplicate_hash(d, h) ==
    IF \E i \in DOMAIN d.memories : d.memories[i].content_hash = h
    THEN CHOOSE i \in DOMAIN d.memories : d.memories[i].content_hash = h
    ELSE NoId

NextRowIdNoAutoincrement(d) == MaxOf(DOMAIN d.memories) + 1

\* INTEGER PRIMARY KEY AUTOINCREMENT: one more than the largest rowid ever used
NextRowId(d) == MaxOf((DOMAIN d.memories) \cup {d.seq}) + 1

UniqueViolationNever(d, h) == FALSE

\* content_hash TEXT UNIQUE NOT NULL
UniqueViolation(d, h) == \E i \in DOMAIN d.memories : d.memories[i].content_hash = h

InsertRow(d, c, h, p, dm) ==
    [d EXCEPT !.memories = Put(d.memories, NextRowId(d), NewRow(c, h, p, dm)),
              !.seq = NextRowId(d)]

InsertVecLost(d, id, e) == d

InsertVec(d, id, e) == [d EXCEPT !.vec = Put(d.vec, id, e)]

DeleteVecSkipped(d, id) == d

DeleteVec(d, id) == [d EXCEPT !.vec = Drop(d.vec, id)]

\* variant: DELETE ... WHERE id <= ?
DeleteRowUpTo(d, id) ==
    [d EXCEPT !.memories = [i \in {j \in DOMAIN d.memories : j > id} |-> d.memories[i]]]

DeleteRowKept(d, id) == d

DeleteRow(d, id) == [d EXCEPT !.memories = Drop(d.memories, id)]

\* variant: the UPDATE counts down
UpdateAccessDecrements(d, id) ==
    IF id \in DOMAIN d.memories
    THEN [d EXCEPT !.memories[id].access_count = @ - 1,
                   !.memories[id].last_accessed_at = TRUE]
    ELSE d

\* variant: the UPDATE without its WHERE clause
UpdateAccessAll(d, id) ==
    [d EXCEPT !.memories = [i \in DOMAIN d.memories |->
                              [d.memories[i] EXCEPT !.access_count = @ + 1,
                                                    !.last_accessed_at = TRUE]]]

\* variant: the UPDATE also rewrites a column of the stored memory
UpdateAccessRewritesDimension(d, id) ==
    IF id \in DOMAIN d.memories
    THEN [d EXCEPT !.memories[id].access_count = @ + 1,
                   !.memories[id].last_accessed_at = TRUE,
                   !.memories[id].embedding_dimension = 0]
    ELSE d

\* variant: the UPDATE creates the row it does not find
UpdateAccessUpserts(d, id) ==
    IF id \in DOMAIN d.memories
    THEN [d EXCEPT !.memories[id].access_count = @ + 1,
                   !.memories[id].last_accessed_at = TRUE]
    ELSE [d EXCEPT !.memories = Put(d.memories, id,
                       [NewRow(EmptyContent, <<>>, "NORMAL", get_dimension) EXCEPT
                           !.access_count = 1, !.last_accessed_at = TRUE])]

UpdateAccess(d, id) ==
    IF id \in DOMAIN d.memories
    THEN [d EXCEPT !.memories[id].access_count = @ + 1,
                   !.memories[id].last_accessed_at = TRUE]
    ELSE d

Distance(u, v) == ISqrt(SumSq(u, v, Dim))

Similarity(u, v) == Unit - Distance(u, v)

\* ids of the vector rows passing the threshold, nearest first
RECURSIVE NearestFirst(_, _, _)
NearestFirst(d, q, S) ==
    IF S = {} THEN <<>>
    ELSE LET best == CHOOSE i \in S : \A j \in S :
                        \/ Distance(d.vec[i], q) < Distance(d.vec[j], q)
                        \/ (Distance(d.vec[i], q) = Distance(d.vec[j], q) /\ i <= j)
         IN  <<best>> \o NearestFirst(d, q, S \ {best})

\* variant: the threshold compared against the distance
vector_search_by_distance(d, q, limit, threshold) ==
    LET hits  == {i \in DOMAIN d.vec : Distance(d.vec[i], q) <= threshold}
        order == NearestFirst(d, q, hits)
        n     == IF Len(order) < limit THEN Len(order) ELSE limit
    IN  [k \in 1..n |-> [memory_id |-> order[k],
                         similarity |-> Similarity(d.vec[order[k]], q)]]

\* SELECT ... WHERE embedding MATCH ? AND (1 - distance) >= ? ORDER BY distance LIMIT ?
vector_search(d, q, limit, threshold) ==
    LET hits  == {i \in DOMAIN d.vec : Similarity(d.vec[i], q) >= threshold}
        order == NearestFirst(d, q, hits)
        n     == IF Len(order) < limit THEN Len(order) ELSE limit
    IN  [k \in 1..n |-> [memory_id |-> order[k],
                         similarity |-> Similarity(d.vec[order[k]], q)]]

\* ------------------------------------------------------------------- cache
CacheKeys(c) == {c[i].key : i \in 1..Len(c)}

CacheIndex(c, h) == CHOOSE i \in 1..Len(c) : c[i].key = h

CacheRemove(c, h) == SelectSeq(c, LAMBDA e : e.key # h)

CacheGetValue(c, h) == c[CacheIndex(c, h)].value

\* variant: a hit returns the value and leaves the order alone
CacheAfterGetNoMove(c, h) == c


CacheAfterGetMissInserts(c, h) ==
    IF h \in CacheKeys(c)
    THEN Append(CacheRemove(c, h), [key |-> h, value |-> CacheGetValue(c, h)])
    ELSE Append(c, [key |-> h, value |-> <<>>])

\* EmbeddingCache.get: a hit moves the entry to the end, a miss changes nothing
CacheAfterGet(c, h) ==
    IF h \in CacheKeys(c)
    THEN Append(CacheRemove(c, h), [key |-> h, value |-> CacheGetValue(c, h)])
    ELSE c

\* variant: a new key is added without making room
CacheAfterSetNoEvict(c, h, e) ==
    IF e = <<>> THEN c
    ELSE IF h \in CacheKeys(c) THEN Append(CacheRemove(c, h), [key |-> h, value |-> e])
    ELSE Append(c, [key |-> h, value |-> e])

\* variant: room is made before looking whether the key is already there
CacheAfterSetEvictsFirst(c, h, e) ==
    IF e = <<>> THEN c
    ELSE LET room == IF Len(c) >= max_size THEN Tail(c) ELSE c
         IN  Append(CacheRemove(room, h), [key |-> h, value |-> e])

\* EmbeddingCache.set
CacheAfterSet(c, h, e) ==
    IF e = <<>> THEN c
    ELSE IF h \in CacheKeys(c) THEN Append(CacheRemove(c, h), [key |-> h, value |-> e])
    ELSE IF Len(c) >= max_size THEN Append(Tail(c), [key |-> h, value |-> e])
    ELSE Append(c, [key |-> h, value |-> e])

\* ----------------------------------------------------------------- scoring
weight_similarity == 40
weight_recency == 20
weight_priority == 20
weight_usage == 20

Clamp(x) == IF x < 0 THEN 0 ELSE IF x > Unit THEN Unit ELSE x

DefaultWeights ==
    [similarity |-> weight_similarity, recency |-> weight_recency,
     priority |-> weight_priority, usage |-> weight_usage]

\* a weight times a score, both in 1/Unit: composite scores are in 1/ScoreUnit
ScoreUnit == Unit * Unit

ClampScore(x) == IF x < 0 THEN 0 ELSE IF x > ScoreUnit THEN ScoreUnit ELSE x

\* exp(-days/30): created_at 1 lies thirty days before the reading (1/e), every
\* other time on the day of the reading
calculate_recency_score(created_at) == IF created_at = 1 THEN 37 ELSE Unit

calculate_priority_score(p) ==
    IF p = "CORE" THEN 100 ELSE IF p = "HIGH" THEN 75
    ELSE IF p = "LOW" THEN 25 ELSE 50

\* log(n + 1) / log(100) in hundredths, for the access counts in play
calculate_usage_score(n) ==
    IF n <= 0 THEN 0 ELSE IF n = 1 THEN 15 ELSE IF n = 2 THEN 24
    ELSE IF n = 3 THEN 30 ELSE 35

calculate_composite_score(similarity, created_at, priority, access_count, weights) ==
    ClampScore(weights.similarity * Clamp(similarity)
               + weights.recency * calculate_recency_score(created_at)
               + weights.priority * calculate_priority_score(priority)
               + weights.usage * calculate_usage_score(access_count))

\* list.sort(key=score, reverse=True): stable, by insertion from the left
RECURSIVE SortByScore(_)
SortByScore(s) ==
    IF s = <<>> THEN <<>>
    ELSE LET rest == SortByScore(Tail(s))
             x    == Head(s)
             k    == Cardinality({i \in 1..Len(rest) : rest[i].score > x.score})
         IN  SubSeq(rest, 1, k) \o <<x>> \o SubSeq(rest, k + 1, Len(rest))

\* _row_to_dict: the columns of the row, its id among them
RowToDict(id, row) ==
    [f \in DOMAIN row \cup {"id"} |-> IF f = "id" THEN id ELSE row[f]]

\* memory.copy() with the score and the similarity of the breakdown added
WithScore(memory, similarity, composite) ==
    [f \in DOMAIN memory \cup {"score", "similarity"} |->
        IF f = "score" THEN composite
        ELSE IF f = "similarity" THEN similarity ELSE memory[f]]

\* variant: a memory without id is scored like the others
score_memories_keeps_all(memories, similarity_scores, weights) ==
    SortByScore([i \in 1..Len(memories) |->
          LET m   == memories[i]
              sim == IF m.id \in DOMAIN similarity_scores
                     THEN similarity_scores[m.id] ELSE 0
          IN  WithScore(m, sim,
                        calculate_composite_score(sim, m.created_at, m.priority,
                                                  m.access_count, weights))])

\* a memory without id (NoId) is skipped; a missing similarity counts as 0
score_memories(memories, similarity_scores, weights) ==
    LET kept == SelectSeq(memories, LAMBDA m : m.id # NoId)
    IN  SortByScore([i \in 1..Len(kept) |->
          LET m   == kept[i]
              sim == IF m.id \in DOMAIN similarity_scores
                     THEN similarity_scores[m.id] ELSE 0
          IN  WithScore(m, sim,
                        calculate_composite_score(sim, m.created_at, m.priority,
                                                  m.access_count, weights))])

\* the filters of a request; "", <<>> and NoTime stand for a filter not given
NoTime == 0

NoFilters == [priority |-> "", tags |-> <<>>, start |-> NoTime, end |-> NoTime]

\* any(tag in memory_tags for tag in filter_tags)
any_tag_in(filter_tags, memory_tags) ==
    \E i \in 1..Len(filter_tags), j \in 1..Len(memory_tags) :
        filter_tags[i] = memory_tags[j]

\* variant: the end of the date range is never compared
apply_filters_open_end(memories, filters) ==
    SelectSeq(memories, LAMBDA m :
        /\ filters.priority = "" \/ m.priority = filters.priority
        /\ filters.tags = <<>> \/ any_tag_in(filters.tags, m.tags)
        /\ filters.start = NoTime \/ ~(m.created_at < filters.start))

\* _apply_filters: priority exact, any filter tag among the tags, created_at
\* within the date range
apply_filters(memories, filters) ==
    SelectSeq(memories, LAMBDA m :
        /\ filters.priority = "" \/ m.priority = filters.priority
        /\ filters.tags = <<>> \/ any_tag_in(filters.tags, m.tags)
        /\ filters.start = NoTime \/ ~(m.created_at < filters.start)
        /\ filters.end = NoTime \/ ~(m.created_at > filters.end))

Take(s, n) == SubSeq(s, 1, IF Len(s) < n THEN Len(s) ELSE n)

RECURSIVE IdsInOrder(_, _)
IdsInOrder(S, desc) ==
    IF S = {} THEN <<>>
    ELSE LET x == IF desc THEN MaxOf(S) ELSE CHOOSE m \in S : \A y \in S : m <= y
         IN  <<x>> \o IdsInOrder(S \ {x}, desc)

\* DatabaseManager.list_memories, ORDER BY id: LIMIT n OFFSET off over the rows
\* passing the priority filter
db_list_memories(d, prio, desc, n, off) ==
    LET match == {i \in DOMAIN d.memories : prio = "" \/ d.memories[i].priority = prio}
        order == IdsInOrder(match, desc)
        hi    == IF Len(order) < off + n THEN Len(order) ELSE off + n
    IN  SubSeq(order, off + 1, hi)

\* ------------------------------------------------------------------- state
VARIABLES
    db,         \* the committed database: what every connection reads
    tx,         \* the uncommitted working copy of the connection holding the write lock
    wlock,      \* the thread holding SQLite's write lock, or 0
    cache,      \* EmbeddingCache.cache, least recently used first
    th,         \* per thread: position in its operation and its locals
    calls,      \* per thread: the collaborator calls its running operation has made
    last,       \* the operation that returned in the step just taken, if any
    issued,     \* id -> content of every insert that committed
    deletedIds, \* ids whose delete returned true
    hist,       \* the cache touches since the last clear, oldest first
    cres,       \* the cache call made in the step just taken and what it returned
    rlock,      \* the thread holding EmbeddingCache.lock, or 0
    call        \* the function applied in the step just taken, its arguments and result

vars == <<db, tx, wlock, cache, th, calls, last, issued, deletedIds, hist, cres, rlock, call>>

NoNear == [memory_id |-> NoId, similarity |-> 0]

IdleThread ==
    [pc |-> "idle", content |-> EmptyContent, priority |-> "", hash |-> <<>>,
     embedding |-> <<>>, near |-> NoNear, memory_id |-> NoId, deleted |-> FALSE,
     rows |-> <<>>, pending |-> <<>>, limit |-> 0, filter |-> "",
     oldest_key |-> <<>>, busy |-> 0, slept |-> 0, waited |-> 0,
     dimension |-> get_dimension]

NoRet ==
    [op |-> "", success |-> FALSE, memory_id |-> NoId, duplicate |-> FALSE,
     near_duplicate |-> NoNear, error |-> "", cause |-> "", rows |-> <<>>,
     has_more |-> FALSE]

NoLast == [thread |-> 0, ret |-> NoRet, calls |-> <<>>]

NoCall == [fn |-> "", args |-> <<>>, result |-> <<>>]

NoCacheResult == [op |-> "", key |-> <<>>, value |-> <<>>, size |-> 0, thread |-> 0]

Init ==
    /\ db = EmptyDb
    /\ tx = EmptyDb
    /\ wlock = 0
    /\ cache = <<>>
    /\ th = [t \in Threads |-> IdleThread]
    /\ calls = [t \in Threads |-> <<>>]
    /\ last = NoLast
    /\ issued = <<>>
    /\ deletedIds = {}
    /\ hist = <<>>
    /\ cres = NoCacheResult
    /\ rlock = 0
    /\ call = NoCall

\* the operation of thread t returns (or raises) r after the calls in log
Finish(t, r, log) ==
    /\ th' = [th EXCEPT ![t] = IdleThread]
    /\ calls' = [calls EXCEPT ![t] = <<>>]
    /\ last' = [thread |-> t, ret |-> r, calls |-> log]

\* the operation of thread t goes on to pc after the calls in log
Continue(t, log) ==
    /\ calls' = [calls EXCEPT ![t] = log]
    /\ last' = NoLast

Raise(op, err, cause) == [NoRet EXCEPT !.op = op, !.error = err, !.cause = cause]

StorePcs ==
    {"store_cache_get", "store_embed", "store_cache_set", "store_near_search",
     "store_near_hydrate", "store_insert", "store_insert_vec", "store_commit"}

\* room for one more id below the bound of the model
CanAllocate ==
    db.seq + Cardinality({u \in Threads : th[u].pc \in StorePcs}) < MaxId

\* --------------------------------------------------- MemoryService.store_memory
StoreProbeEmbedsFirst(t, c, p) ==
    /\ th[t].pc = "idle"
    /\ UNCHANGED <<hist, cres, rlock, call>>
    /\ c # EmptyContent
    /\ UNCHANGED <<db, tx, wlock, issued, deletedIds>>
    /\ LET h == generate_content_hash(c)
           existing_id == check_duplicate_hash(db, h)
           log == <<"generate_embedding", "cache.set", "check_duplicate_hash">>
       IN  /\ cache' = CacheAfterSet(cache, h, generate_embedding(c))
           /\ IF existing_id # NoId
              THEN Finish(t, [NoRet EXCEPT !.op = "store_memory",
                                           !.success = TRUE,
                                           !.duplicate = TRUE,
                                           !.memory_id = existing_id], log)
              ELSE /\ CanAllocate
                   /\ th' = [th EXCEPT ![t] = [IdleThread EXCEPT
                                 !.pc = "store_near_search", !.content = c,
                                 !.priority = p, !.hash = h,
                                 !.embedding = generate_embedding(c)]]
                   /\ Continue(t, log)

\* entry: empty check, content hash, exact-duplicate probe
StoreProbe(t, c, p) ==
    /\ th[t].pc = "idle"
    /\ UNCHANGED <<hist, cres, rlock, call>>
    /\ UNCHANGED <<db, tx, wlock, cache, issued, deletedIds>>
    /\ IF c = EmptyContent
       THEN Finish(t, Raise("store_memory", "ValueError", ""), <<>>)
       ELSE LET h == generate_content_hash(c)
                existing_id == check_duplicate_hash(db, h)
            IN  IF existing_id # NoId
                THEN Finish(t, [NoRet EXCEPT !.op = "store_memory",
                                             !.success = TRUE,
                                             !.duplicate = TRUE,
                                             !.memory_id = existing_id],
                            <<"check_duplicate_hash">>)
                ELSE /\ CanAllocate
                     /\ th' = [th EXCEPT ![t] = [IdleThread EXCEPT
                                   !.pc = "store_cache_get", !.content = c,
                                   !.priority = p, !.hash = h]]
                     /\ Continue(t, <<"check_duplicate_hash">>)

StoreCacheGet(t) ==
    /\ th[t].pc = "store_cache_get"
    /\ UNCHANGED <<hist, cres, rlock, call>>
    /\ Continue(t, Append(calls[t], "cache.get"))
    /\ cache' = CacheAfterGet(cache, th[t].hash)
    /\ IF th[t].hash \in CacheKeys(cache)
       THEN th' = [th EXCEPT ![t].pc = "store_near_search",
                             ![t].embedding = CacheGetValue(cache, th[t].hash)]
       ELSE th' = [th EXCEPT ![t].pc = "store_embed"]
    /\ UNCHANGED <<db, tx, wlock, issued, deletedIds>>

\* embedding_service.generate_embedding: returns the vector or raises RuntimeError
StoreEmbed(t) ==
    /\ th[t].pc = "store_embed"
    /\ UNCHANGED <<hist, cres, rlock, call>>
    /\ UNCHANGED <<db, tx, wlock, cache, issued, deletedIds>>
    /\ \E ok \in BOOLEAN :
         IF ok
         THEN /\ th' = [th EXCEPT ![t].pc = "store_cache_set",
                                  ![t].embedding = generate_embedding(th[t].content)]
              /\ Continue(t, Append(calls[t], "generate_embedding"))
         ELSE Finish(t, Raise("store_memory", "RuntimeError", "ModelError"),
                     Append(calls[t], "generate_embedding"))

\* variant: the embedding is not put into the cache
StoreCacheSetSkipped(t) ==
    /\ th[t].pc = "store_cache_set"
    /\ UNCHANGED <<hist, cres, rlock, call>>
    /\ Continue(t, Append(calls[t], "cache.set"))
    /\ th' = [th EXCEPT ![t].pc = "store_near_search"]
    /\ UNCHANGED <<db, tx, wlock, cache, issued, deletedIds>>

StoreCacheSet(t) ==
    /\ th[t].pc = "store_cache_set"
    /\ UNCHANGED <<hist, cres, rlock, call>>
    /\ Continue(t, Append(calls[t], "cache.set"))
    /\ cache' = CacheAfterSet(cache, th[t].hash, th[t].embedding)
    /\ th' = [th EXCEPT ![t].pc = "store_near_search"]
    /\ UNCHANGED <<db, tx, wlock, issued, deletedIds>>

\* _check_near_duplicate, first half: the vector search
StoreNearSearch(t) ==
    /\ th[t].pc = "store_near_search"
    /\ UNCHANGED <<hist, cres, rlock, call>>
    /\ UNCHANGED <<db, tx, wlock, cache, issued, deletedIds>>
    /\ IF auto_check
       THEN LET similar_results == vector_search(db, th[t].embedding,
                                       near_duplicate_limit, dedup_similarity_threshold)
            IN  /\ Continue(t, Append(calls[t], "vector_search"))
                /\ IF similar_results = <<>>
                   THEN th' = [th EXCEPT ![t].pc = "store_insert"]
                   ELSE th' = [th EXCEPT ![t].pc = "store_near_hydrate",
                                         ![t].near = similar_results[1]]
       ELSE /\ th' = [th EXCEPT ![t].pc = "store_insert"]
            /\ Continue(t, calls[t])

\* variant: a near-duplicate is answered like an exact duplicate, without insertion
StoreNearHydrateDedups(t) ==
    /\ th[t].pc = "store_near_hydrate"
    /\ UNCHANGED <<hist, cres, rlock, call>>
    /\ LET similar_id == th[t].near.memory_id
       IN  IF /\ similar_id \in DOMAIN db.memories
              /\ db.memories[similar_id].content_hash = th[t].hash
           THEN /\ th' = [th EXCEPT ![t].pc = "store_insert", ![t].near = NoNear]
                /\ Continue(t, Append(calls[t], "get_memory_by_id"))
           ELSE Finish(t, [NoRet EXCEPT !.op = "store_memory", !.success = TRUE,
                                        !.memory_id = similar_id, !.duplicate = TRUE],
                       Append(calls[t], "get_memory_by_id"))
    /\ UNCHANGED <<db, tx, wlock, cache, issued, deletedIds>>

\* _check_near_duplicate, second half: drop the candidate with the same hash
StoreNearHydrate(t) ==
    /\ th[t].pc = "store_near_hydrate"
    /\ UNCHANGED <<hist, cres, rlock, call>>
    /\ Continue(t, Append(calls[t], "get_memory_by_id"))
    /\ LET similar_id == th[t].near.memory_id
       IN  IF /\ similar_id \in DOMAIN db.memories
              /\ db.memories[similar_id].content_hash = th[t].hash
           THEN th' = [th EXCEPT ![t].pc = "store_insert", ![t].near = NoNear]
           ELSE th' = [th EXCEPT ![t].pc = "store_insert"]
    /\ UNCHANGED <<db, tx, wlock, cache, issued, deletedIds>>

\* variant: only the priority is validated
InsertArgsValidPriorityOnly(t) == validate_priority(th[t].priority)

InsertArgsValid(t) ==
    /\ validate_priority(th[t].priority)
    /\ Len(th[t].embedding) = th[t].dimension

\* the message of the ValueError of insert_memory; the priority is checked first
InsertArgsError(t) ==
    IF ~validate_priority(th[t].priority)
    THEN "ValueError: Invalid priority"
    ELSE "ValueError: Embedding dimension mismatch"

\* insert_memory up to the INSERT into memories; every failure is re-raised by
\* store_memory as RuntimeError
StoreInsertRow(t) ==
    /\ th[t].pc = "store_insert"
    /\ UNCHANGED <<hist, cres, rlock, call>>
    /\ UNCHANGED <<db, cache, issued, deletedIds>>
    /\ IF ~InsertArgsValid(t)
       THEN /\ Finish(t, Raise("store_memory", "RuntimeError", InsertArgsError(t)),
                      Append(calls[t], "insert_memory"))
            /\ UNCHANGED <<tx, wlock>>
       ELSE /\ wlock = 0
            /\ IF UniqueViolation(db, th[t].hash)
               THEN /\ Finish(t, Raise("store_memory", "RuntimeError", "IntegrityError"),
                              Append(calls[t], "insert_memory"))
                    /\ UNCHANGED <<tx, wlock>>
               ELSE /\ tx' = InsertRow(db, th[t].content, th[t].hash,
                                       th[t].priority, th[t].dimension)
                    /\ wlock' = t
                    /\ th' = [th EXCEPT ![t].pc = "store_insert_vec",
                                        ![t].memory_id = NextRowId(db)]
                    /\ Continue(t, Append(calls[t], "insert_memory"))

\* the busy timeout of the connection expires while another writer holds the lock
StoreInsertLocked(t) ==
    /\ th[t].pc = "store_insert"
    /\ UNCHANGED <<hist, cres, rlock, call>>
    /\ InsertArgsValid(t)
    /\ wlock # 0
    /\ Finish(t, Raise("store_memory", "RuntimeError", "OperationalError"),
              Append(calls[t], "insert_memory"))
    /\ UNCHANGED <<db, tx, wlock, cache, issued, deletedIds>>

\* the INSERT into vec_memories; a failure rolls the transaction back
StoreInsertVec(t) ==
    /\ th[t].pc = "store_insert_vec"
    /\ UNCHANGED <<hist, cres, rlock, call>>
    /\ UNCHANGED <<db, cache, issued, deletedIds>>
    /\ \E ok \in {b \in BOOLEAN : b => Len(th[t].embedding) = vec_dimension} :
         IF ok
         THEN /\ tx' = InsertVec(tx, th[t].memory_id, th[t].embedding)
              /\ th' = [th EXCEPT ![t].pc = "store_commit"]
              /\ Continue(t, calls[t])
              /\ UNCHANGED wlock
         ELSE /\ tx' = EmptyDb
              /\ wlock' = 0
              /\ Finish(t, Raise("store_memory", "RuntimeError", "DatabaseError"),
                        calls[t])

StoreCommit(t) ==
    /\ th[t].pc = "store_commit"
    /\ UNCHANGED <<hist, cres, rlock, call>>
    /\ db' = tx
    /\ tx' = EmptyDb
    /\ wlock' = 0
    /\ issued' = Put(issued, th[t].memory_id, th[t].content)
    /\ Finish(t, [NoRet EXCEPT !.op = "store_memory", !.success = TRUE,
                               !.memory_id = th[t].memory_id,
                               !.near_duplicate = th[t].near],
              calls[t])
    /\ UNCHANGED <<cache, deletedIds>>

\* -------------------------------------------------- MemoryService.delete_memory
\* variant: the lookup answers with some stored row whatever the hash
get_memory_by_hash_any(d, h) ==
    IF DOMAIN d.memories = {} THEN NoId ELSE MaxOf(DOMAIN d.memories)

get_memory_by_hash(d, h) == check_duplicate_hash(d, h)

\* entry: argument check and, when only the hash is given, its lookup
DeleteCall(t, mid, c) ==
    /\ th[t].pc = "idle"
    /\ UNCHANGED <<hist, cres, rlock, call>>
    /\ UNCHANGED <<db, tx, wlock, cache, issued, deletedIds>>
    /\ IF mid = NoId /\ c = EmptyContent
       THEN Finish(t, Raise("delete_memory", "ValueError", ""), <<>>)
       ELSE IF mid = NoId
       THEN LET found == get_memory_by_hash(db, generate_content_hash(c))
            IN  IF found # NoId
                THEN /\ th' = [th EXCEPT ![t] = [IdleThread EXCEPT
                                   !.pc = "delete_vec", !.memory_id = found]]
                     /\ Continue(t, <<"get_memory_by_hash">>)
                ELSE Finish(t, [NoRet EXCEPT !.op = "delete_memory"],
                            <<"get_memory_by_hash">>)
       ELSE /\ th' = [th EXCEPT ![t] = [IdleThread EXCEPT
                          !.pc = "delete_vec", !.memory_id = mid]]
            /\ Continue(t, <<>>)

\* db_manager.delete_memory: DELETE FROM vec_memories opens the transaction
DeleteVecRow(t) ==
    /\ th[t].pc = "delete_vec"
    /\ UNCHANGED <<hist, cres, rlock, call>>
    /\ wlock = 0
    /\ tx' = DeleteVec(db, th[t].memory_id)
    /\ wlock' = t
    /\ th' = [th EXCEPT ![t].pc = "delete_row"]
    /\ Continue(t, Append(calls[t], "delete_memory"))
    /\ UNCHANGED <<db, cache, issued, deletedIds>>

DeleteLocked(t) ==
    /\ th[t].pc = "delete_vec"
    /\ UNCHANGED <<hist, cres, rlock, call>>
    /\ wlock # 0
    /\ Finish(t, Raise("delete_memory", "OperationalError", ""),
              Append(calls[t], "delete_memory"))
    /\ UNCHANGED <<db, tx, wlock, cache, issued, deletedIds>>

\* DELETE FROM memories and its rowcount; a failure rolls the transaction back
DeleteMemRow(t) ==
    /\ th[t].pc = "delete_row"
    /\ UNCHANGED <<hist, cres, rlock, call>>
    /\ UNCHANGED <<db, cache, issued, deletedIds>>
    /\ \E ok \in BOOLEAN :
         IF ok
         THEN /\ tx' = DeleteRow(tx, th[t].memory_id)
              /\ th' = [th EXCEPT ![t].pc = "delete_commit",
                                  ![t].deleted = (th[t].memory_id \in DOMAIN tx.memories)]
              /\ Continue(t, calls[t])
              /\ UNCHANGED wlock
         ELSE /\ tx' = EmptyDb
              /\ wlock' = 0
              /\ Finish(t, Raise("delete_memory", "DatabaseError", ""), calls[t])

\* variant: a successful delete also drops the cache entries
DeleteCommitPurges(t) ==
    /\ th[t].pc = "delete_commit"
    /\ UNCHANGED <<hist, cres, rlock, call>>
    /\ db' = tx
    /\ tx' = EmptyDb
    /\ wlock' = 0
    /\ deletedIds' = IF th[t].deleted THEN deletedIds \cup {th[t].memory_id}
                     ELSE deletedIds
    /\ cache' = IF th[t].deleted THEN <<>> ELSE cache
    /\ Finish(t, [NoRet EXCEPT !.op = "delete_memory", !.success = th[t].deleted,
                               !.memory_id = IF th[t].deleted THEN th[t].memory_id
                                             ELSE NoId],
              calls[t])
    /\ UNCHANGED issued

DeleteCommit(t) ==
    /\ th[t].pc = "delete_commit"
    /\ UNCHANGED <<hist, cres, rlock, call>>
    /\ db' = tx
    /\ tx' = EmptyDb
    /\ wlock' = 0
    /\ deletedIds' = IF th[t].deleted THEN deletedIds \cup {th[t].memory_id}
                     ELSE deletedIds
    /\ Finish(t, [NoRet EXCEPT !.op = "delete_memory", !.success = th[t].deleted,
                               !.memory_id = IF th[t].deleted THEN th[t].memory_id
                                             ELSE NoId],
              calls[t])
    /\ UNCHANGED <<cache, issued>>

\* ----------------------------------------------------- MemoryService.get_memory
PendingUpdates(id) ==
    Cardinality({u \in Threads : th[u].pc = "get_update" /\ th[u].memory_id = id})

\* entry: get_memory_by_id; the accesses of a memory, those under way
\* included, stay within bound
GetWithin(t, id, bound) ==
    /\ th[t].pc = "idle"
    /\ UNCHANGED <<hist, cres, rlock, call>>
    /\ UNCHANGED <<db, tx, wlock, cache, issued, deletedIds>>
    /\ IF id \in DOMAIN db.memories
       THEN /\ db.memories[id].access_count + PendingUpdates(id) < bound
            /\ th' = [th EXCEPT ![t] = [IdleThread EXCEPT
                          !.pc = "get_update", !.memory_id = id,
                          !.rows = <<db.memories[id]>>]]
            /\ Continue(t, <<"get_memory_by_id">>)
       ELSE Finish(t, [NoRet EXCEPT !.op = "get_memory"], <<"get_memory_by_id">>)

\* get_memory of the service: an idle thread takes the call
GetCall(t, id) ==
    /\ th[t].pc = "idle"
    /\ GetWithin(t, id, MaxAccess)

\* variant: the count is written back from the row that was read
GetUpdateWritesBack(t) ==
    /\ th[t].pc = "get_update"
    /\ UNCHANGED <<hist, cres, rlock, call>>
    /\ wlock = 0
    /\ db' = IF th[t].memory_id \in DOMAIN db.memories
             THEN [db EXCEPT !.memories[th[t].memory_id].access_count =
                                 th[t].rows[1].access_count + 1,
                             !.memories[th[t].memory_id].last_accessed_at = TRUE]
             ELSE db
    /\ Finish(t, [NoRet EXCEPT !.op = "get_memory", !.success = TRUE,
                               !.memory_id = th[t].memory_id, !.rows = th[t].rows],
              Append(calls[t], "update_access_count"))
    /\ UNCHANGED <<tx, wlock, cache, issued, deletedIds>>

\* update_access_count: one UPDATE and its commit; no row, no effect
GetUpdate(t) ==
    /\ th[t].pc = "get_update"
    /\ UNCHANGED <<hist, cres, rlock, call>>
    /\ wlock = 0
    /\ db' = UpdateAccess(db, th[t].memory_id)
    /\ Finish(t, [NoRet EXCEPT !.op = "get_memory", !.success = TRUE,
                               !.memory_id = th[t].memory_id, !.rows = th[t].rows],
              Append(calls[t], "update_access_count"))
    /\ UNCHANGED <<tx, wlock, cache, issued, deletedIds>>

GetLocked(t) ==
    /\ th[t].pc = "get_update"
    /\ UNCHANGED <<hist, cres, rlock, call>>
    /\ wlock # 0
    /\ Finish(t, Raise("get_memory", "OperationalError", ""),
              Append(calls[t], "update_access_count"))
    /\ UNCHANGED <<db, tx, wlock, cache, issued, deletedIds>>

\* -------------------------------------------------- MemoryService.search_memory
\* variant: the input schema accepts every limit
SearchMemoryInputAny(limit) == TRUE

\* SearchMemoryInput: limit with ge=1 and le=100
SearchMemoryInputValid(limit) == limit >= 1 /\ limit <= 100

\* the limits a request may carry: the ones in range and some outside it
SearchLimits == (1..MaxLimit) \cup {-1, 0, 101}

\* entry: the input schema, the empty check and the query embedding (never
\* cached)
SearchCall(t, q, limit, prio) ==
    /\ th[t].pc = "idle"
    /\ UNCHANGED <<hist, cres, rlock, call>>
    /\ UNCHANGED <<db, tx, wlock, cache, issued, deletedIds>>
    /\ IF ~SearchMemoryInputValid(limit)
       THEN Finish(t, Raise("search_memory", "ValidationError", "limit"), <<>>)
       ELSE IF q = EmptyContent
       THEN Finish(t, Raise("search_memory", "ValueError", ""), <<>>)
       ELSE \E ok \in BOOLEAN :
              IF ok
              THEN /\ th' = [th EXCEPT ![t] = [IdleThread EXCEPT
                                 !.pc = "search_vector", !.limit = limit,
                                 !.filter = prio,
                                 !.embedding = generate_embedding(q)]]
                   /\ Continue(t, <<"generate_embedding">>)
              ELSE Finish(t, Raise("search_memory", "RuntimeError", "ModelError"),
                          <<"generate_embedding">>)

SearchResult(t, rows) ==
    LET memories == [i \in 1..Len(rows) |-> RowToDict(rows[i].id, rows[i].row)]
        similarity_scores ==
            [id \in {rows[i].id : i \in 1..Len(rows)} |->
                rows[CHOOSE i \in 1..Len(rows) : rows[i].id = id].similarity]
        scored_memories == score_memories(memories, similarity_scores, DefaultWeights)
        filtered_memories ==
            apply_filters(scored_memories, [NoFilters EXCEPT !.priority = th[t].filter])
    IN  [NoRet EXCEPT !.op = "search_memory", !.success = TRUE,
                      !.rows = Take(SortByScore(filtered_memories), th[t].limit)]

SearchVector(t) ==
    /\ th[t].pc = "search_vector"
    /\ UNCHANGED <<hist, cres, rlock, call>>
    /\ UNCHANGED <<db, tx, wlock, cache, issued, deletedIds>>
    /\ LET vector_results == vector_search(db, th[t].embedding, th[t].limit * 2,
                                           retrieval_similarity_threshold)
       IN  IF vector_results = <<>>
           THEN Finish(t, [NoRet EXCEPT !.op = "search_memory", !.success = TRUE],
                       Append(calls[t], "vector_search"))
           ELSE /\ th' = [th EXCEPT ![t].pc = "search_hydrate",
                                    ![t].pending = vector_results]
                /\ Continue(t, Append(calls[t], "vector_search"))

\* variant: the hydration loop reads through get_memory and counts the access
SearchHydrateCounts(t) ==
    /\ th[t].pc = "search_hydrate"
    /\ UNCHANGED <<hist, cres, rlock, call>>
    /\ UNCHANGED <<tx, wlock, cache, issued, deletedIds>>
    /\ LET c    == Head(th[t].pending)
           rows == IF c.memory_id \in DOMAIN db.memories
                   THEN Append(th[t].rows, [id |-> c.memory_id,
                                            similarity |-> c.similarity,
                                            row |-> db.memories[c.memory_id]])
                   ELSE th[t].rows
       IN  /\ db' = UpdateAccess(db, c.memory_id)
           /\ IF Len(th[t].pending) = 1
              THEN Finish(t, SearchResult(t, rows), Append(calls[t], "get_memory_by_id"))
              ELSE /\ th' = [th EXCEPT ![t].pending = Tail(th[t].pending),
                                       ![t].rows = rows]
                   /\ Continue(t, Append(calls[t], "get_memory_by_id"))

\* one get_memory_by_id of the hydration loop; after the last one, score,
\* filter, sort and cut
SearchHydrate(t) ==
    /\ th[t].pc = "search_hydrate"
    /\ UNCHANGED <<hist, cres, rlock, call>>
    /\ UNCHANGED <<db, tx, wlock, cache, issued, deletedIds>>
    /\ LET c    == Head(th[t].pending)
           rows == IF c.memory_id \in DOMAIN db.memories
                   THEN Append(th[t].rows, [id |-> c.memory_id,
                                            similarity |-> c.similarity,
                                            row |-> db.memories[c.memory_id]])
                   ELSE th[t].rows
       IN  IF Len(th[t].pending) = 1
           THEN Finish(t, SearchResult(t, rows), Append(calls[t], "get_memory_by_id"))
           ELSE /\ th' = [th EXCEPT ![t].pending = Tail(th[t].pending),
                                    ![t].rows = rows]
                /\ Continue(t, Append(calls[t], "get_memory_by_id"))

\* --------------------------------------------------- MemoryService.list_memories
ListCall(t, prio, desc, limit, offset) ==
    /\ th[t].pc = "idle"
    /\ UNCHANGED <<hist, cres, rlock, call>>
    /\ LET memories == db_list_memories(db, prio, desc, limit + 1, offset)
           has_more == Len(memories) > limit
       IN  Finish(t, [NoRet EXCEPT !.op = "list_memories", !.success = TRUE,
                                   !.rows = IF has_more THEN SubSeq(memories, 1, limit)
                                            ELSE memories,
                                   !.has_more = has_more],
                  <<"list_memories">>)
    /\ UNCHANGED <<db, tx, wlock, cache, issued, deletedIds>>

Next == \E t \in Threads :
    \/ \E c \in Contents \cup {EmptyContent}, p \in PriorityInputs : StoreProbe(t, c, p)
    \/ StoreCacheGet(t)
    \/ StoreEmbed(t)
    \/ StoreCacheSet(t)
    \/ StoreNearSearch(t)
    \/ StoreNearHydrate(t)
    \/ StoreInsertRow(t)
    \/ StoreInsertLocked(t)
    \/ StoreInsertVec(t)
    \/ StoreCommit(t)
    \/ \E mid \in 0..MaxId, c \in Contents \cup {EmptyContent} : DeleteCall(t, mid, c)
    \/ DeleteVecRow(t)
    \/ DeleteLocked(t)
    \/ DeleteMemRow(t)
    \/ DeleteCommit(t)
    \/ \E id \in 1..MaxId : GetCall(t, id)
    \/ GetUpdate(t)
    \/ GetLocked(t)
    \/ \E q \in Contents \cup {EmptyContent}, limit \in SearchLimits, prio \in {"", "NORMAL"} :
         SearchCall(t, q, limit, prio)
    \/ SearchVector(t)
    \/ SearchHydrate(t)
    \/ \E prio \in {"", "NORMAL"}, desc \in BOOLEAN, limit \in 1..MaxLimit, offset \in 0..MaxLimit :
         ListCall(t, prio, desc, limit, offset)

Spec == Init /\ [][Next]_vars

\* ------------------------------------------------------------- EmbeddingCache
\* the cache on its own: any caller, any sequence of get, set, clear and size
CacheHashes == {generate_content_hash(k) : k \in 1..(max_size + NumExtraKeys)}

CacheVectors == {<<>>} \cup {generate_embedding(c) : c \in 1..2}

CacheIdle ==
    /\ \A t \in Threads : th[t].pc = "idle"
    /\ UNCHANGED <<db, tx, wlock, th, calls, last, issued, deletedIds, rlock, call>>

\* EmbeddingCache.get: the stored vector, or None (the empty tuple) on a miss
CacheGet(h) ==
    /\ CacheIdle
    /\ Len(hist) < MaxCacheOps
    /\ cache' = CacheAfterGet(cache, h)
    /\ IF h \in CacheKeys(cache)
       THEN /\ cres' = [op |-> "get", key |-> h, value |-> CacheGetValue(cache, h),
                        size |-> 0, thread |-> 0]
            /\ hist' = Append(hist, [key |-> h, value |-> <<>>])
       ELSE /\ cres' = [op |-> "get", key |-> h, value |-> <<>>, size |-> 0, thread |-> 0]
            /\ hist' = hist

\* EmbeddingCache.set: an empty embedding is ignored
CacheSet(h, e) ==
    /\ CacheIdle
    /\ Len(hist) < MaxCacheOps
    /\ cache' = CacheAfterSet(cache, h, e)
    /\ cres' = [op |-> "set", key |-> h, value |-> e, size |-> 0, thread |-> 0]
    /\ hist' = IF e = <<>> THEN hist ELSE Append(hist, [key |-> h, value |-> e])

CacheCleared == <<>>

\* EmbeddingCache.clear
CacheClear ==
    /\ CacheIdle
    /\ cache' = CacheCleared
    /\ cres' = [op |-> "clear", key |-> <<>>, value |-> <<>>, size |-> 0, thread |-> 0]
    /\ hist' = <<>>

CacheLen(c) == Len(c)

\* EmbeddingCache.size and __len__
CacheSize ==
    /\ CacheIdle
    /\ cres' = [op |-> "size", key |-> <<>>, value |-> <<>>, size |-> CacheLen(cache), thread |-> 0]
    /\ UNCHANGED <<cache, hist>>

NextCache ==
    \/ \E h \in CacheHashes : CacheGet(h)
    \/ \E h \in CacheHashes, e \in CacheVectors : CacheSet(h, e)
    \/ CacheClear
    \/ CacheSize

SpecCache == Init /\ [][NextCache]_vars

\* ----------------------------------------------- EmbeddingCache under threads
\* the same cache called from several threads; one action per step a thread
\* takes between two points where another thread can run
CacheFrame == UNCHANGED <<db, tx, wlock, calls, last, issued, deletedIds, call>>

CacheResult(t, op, h, e, n) ==
    [op |-> op, key |-> h, value |-> e, size |-> n, thread |-> t]

\* variant: the with block entered without taking the lock
CanLockAlways(t) == TRUE

\* `with self.lock`: an RLock is free, or held by the caller itself
CanLock(t) == rlock = 0 \/ rlock = t

\* the call of thread t leaves its with block and returns r
CacheReturn(t, r) ==
    /\ th' = [th EXCEPT ![t] = IdleThread]
    /\ rlock' = 0
    /\ cres' = r

CacheGoto(t, pc) ==
    /\ th' = [th EXCEPT ![t].pc = pc]
    /\ UNCHANGED <<cres, rlock>>

\* OrderedDict.__setitem__: a present key keeps its place
DictAssign(c, h, e) ==
    IF h \in CacheKeys(c)
    THEN [i \in 1..Len(c) |-> IF c[i].key = h THEN [key |-> h, value |-> e] ELSE c[i]]
    ELSE Append(c, [key |-> h, value |-> e])

\* get: take the lock and test membership; a miss returns None at once
TGetCheck(t, h) ==
    /\ th[t].pc = "idle"
    /\ CanLock(t)
    /\ Len(hist) < max_size + MaxThreadOps
    /\ CacheFrame
    /\ UNCHANGED cache
    /\ IF h \notin CacheKeys(cache)
       THEN /\ CacheReturn(t, CacheResult(t, "get", h, <<>>, 0))
            /\ UNCHANGED hist
       ELSE /\ th' = [th EXCEPT ![t] = [IdleThread EXCEPT !.pc = "cget_pop", !.hash = h]]
            /\ rlock' = t
            /\ hist' = Append(hist, [key |-> h, value |-> <<>>])
            /\ UNCHANGED cres

\* get: embedding = self.cache.pop(content_hash)
TGetPop(t) ==
    /\ th[t].pc = "cget_pop"
    /\ CacheFrame
    /\ UNCHANGED hist
    /\ IF th[t].hash \in CacheKeys(cache)
       THEN /\ cache' = CacheRemove(cache, th[t].hash)
            /\ th' = [th EXCEPT ![t].pc = "cget_add",
                                ![t].embedding = CacheGetValue(cache, th[t].hash)]
            /\ UNCHANGED <<cres, rlock>>
       ELSE /\ CacheReturn(t, CacheResult(t, "KeyError", th[t].hash, <<>>, 0))
            /\ UNCHANGED cache

\* get: self.cache[content_hash] = embedding; return embedding
TGetAdd(t) ==
    /\ th[t].pc = "cget_add"
    /\ CacheFrame
    /\ UNCHANGED hist
    /\ cache' = DictAssign(cache, th[t].hash, th[t].embedding)
    /\ CacheReturn(t, CacheResult(t, "get", th[t].hash, th[t].embedding, 0))

\* set: the empty-embedding return, else take the lock and choose the branch
TSetCheck(t, h, e) ==
    /\ th[t].pc = "idle"
    /\ CacheFrame
    /\ UNCHANGED cache
    /\ IF e = <<>>
       THEN /\ cres' = CacheResult(t, "set", h, e, 0)
            /\ UNCHANGED <<th, hist, rlock>>
       ELSE /\ CanLock(t)
            /\ Len(hist) < max_size + MaxThreadOps
            /\ th' = [th EXCEPT ![t] = [IdleThread EXCEPT
                         !.pc = IF h \in CacheKeys(cache) THEN "cset_pop"
                                ELSE IF Len(cache) >= max_size THEN "cset_evict_read"
                                ELSE "cset_add",
                         !.hash = h, !.embedding = e]]
            /\ rlock' = t
            /\ hist' = Append(hist, [key |-> h, value |-> e])
            /\ UNCHANGED cres

\* set: self.cache.pop(content_hash)
TSetPop(t) ==
    /\ th[t].pc = "cset_pop"
    /\ CacheFrame
    /\ UNCHANGED hist
    /\ IF th[t].hash \in CacheKeys(cache)
       THEN /\ cache' = CacheRemove(cache, th[t].hash)
            /\ CacheGoto(t, "cset_add")
       ELSE /\ CacheReturn(t, CacheResult(t, "KeyError", th[t].hash, <<>>, 0))
            /\ UNCHANGED cache

\* set: oldest_key = next(iter(self.cache))
TSetEvictRead(t) ==
    /\ th[t].pc = "cset_evict_read"
    /\ CacheFrame
    /\ UNCHANGED <<cache, hist>>
    /\ IF cache # <<>>
       THEN /\ th' = [th EXCEPT ![t].pc = "cset_evict_pop",
                                ![t].oldest_key = cache[1].key]
            /\ UNCHANGED <<cres, rlock>>
       ELSE CacheReturn(t, CacheResult(t, "StopIteration", th[t].hash, <<>>, 0))

\* set: self.cache.pop(oldest_key)
TSetEvictPop(t) ==
    /\ th[t].pc = "cset_evict_pop"
    /\ CacheFrame
    /\ UNCHANGED hist
    /\ IF th[t].oldest_key \in CacheKeys(cache)
       THEN /\ cache' = CacheRemove(cache, th[t].oldest_key)
            /\ CacheGoto(t, "cset_add")
       ELSE /\ CacheReturn(t, CacheResult(t, "KeyError", th[t].oldest_key, <<>>, 0))
            /\ UNCHANGED cache

\* set: self.cache[content_hash] = embedding
TSetAdd(t) ==
    /\ th[t].pc = "cset_add"
    /\ CacheFrame
    /\ UNCHANGED hist
    /\ cache' = DictAssign(cache, th[t].hash, th[t].embedding)
    /\ CacheReturn(t, CacheResult(t, "set", th[t].hash, th[t].embedding, 0))

\* clear: take the lock and read the size for the log line
TClear(t) ==
    /\ th[t].pc = "idle"
    /\ CanLock(t)
    /\ CacheFrame
    /\ th' = [th EXCEPT ![t] = [IdleThread EXCEPT !.pc = "cclear"]]
    /\ rlock' = t
    /\ hist' = <<>>
    /\ UNCHANGED <<cache, cres>>

\* clear: self.cache.clear()
TClearDo(t) ==
    /\ th[t].pc = "cclear"
    /\ CacheFrame
    /\ UNCHANGED hist
    /\ cache' = CacheCleared
    /\ CacheReturn(t, CacheResult(t, "clear", <<>>, <<>>, 0))

\* size: len(self.cache) under the lock
TSize(t) ==
    /\ th[t].pc = "idle"
    /\ CanLock(t)
    /\ CacheFrame
    /\ UNCHANGED <<cache, hist>>
    /\ CacheReturn(t, CacheResult(t, "size", <<>>, <<>>, CacheLen(cache)))

NextCacheThreads == \E t \in Threads :
    \/ \E h \in CacheHashes : TGetCheck(t, h)
    \/ TGetPop(t)
    \/ TGetAdd(t)
    \/ \E h \in CacheHashes, e \in CacheVectors : TSetCheck(t, h, e)
    \/ TSetPop(t)
    \/ TSetEvictRead(t)
    \/ TSetEvictPop(t)
    \/ TSetAdd(t)
    \/ TClear(t)
    \/ TClearDo(t)
    \/ TSize(t)

SpecCacheThreads == Init /\ [][NextCacheThreads]_vars

\* ------------------------------------------------------ queries on a fixed store
\* the read operations applied to a store that no one is writing
Tag(chars) == chars

StoreTagLists == {<<>>, <<Tag(<<"a">>)>>}

StorePriorities == {"HIGH", "LOW"}

StoreTimes == {1, 2}

RowChoices == [priority : StorePriorities, tags : StoreTagLists, created_at : StoreTimes]

QueryRow(i, ch) ==
    [NewRow(i, generate_content_hash(i), ch.priority, get_dimension) EXCEPT
        !.tags = ch.tags, !.created_at = ch.created_at]

\* the stores left by n committed inserts of distinct contents
QueryStores ==
    UNION {{[memories |-> [i \in 1..n |-> QueryRow(i, f[i])],
             vec      |-> [i \in 1..n |-> generate_embedding(i)],
             seq      |-> n] : f \in [1..n -> RowChoices]} : n \in 0..NumRows}

InitQuery ==
    /\ db \in QueryStores
    /\ tx = EmptyDb
    /\ wlock = 0
    /\ cache = <<>>
    /\ th = [t \in Threads |-> IdleThread]
    /\ calls = [t \in Threads |-> <<>>]
    /\ last = NoLast
    /\ issued = <<>>
    /\ deletedIds = {}
    /\ hist = <<>>
    /\ cres = NoCacheResult
    /\ rlock = 0
    /\ call = NoCall

QueryFrame ==
    UNCHANGED <<db, tx, wlock, cache, th, calls, last, issued, deletedIds, hist, cres, rlock>>

Applied(fn, args, result) == [fn |-> fn, args |-> args, result |-> result]

QueryVectors == {generate_embedding(c) : c \in {-1} \cup (1..NumRows)}

QueryThresholds == {retrieval_similarity_threshold, dedup_similarity_threshold}

\* db_manager.vector_search; one query per behaviour: no query changes the
\* store, so a later query returns what it would have returned first
QVectorSearch(q, limit, threshold) ==
    /\ call = NoCall
    /\ call' = Applied("vector_search", <<q, limit, threshold>>,
                       vector_search(db, q, limit, threshold))
    /\ QueryFrame

\* MemoryService.search_memory on a store no one writes: vector search of
\* limit * 2 candidates, hydration, scoring, filters, sort, cut
search_memory(d, query_embedding, limit, filters, weights) ==
    LET vector_results == vector_search(d, query_embedding, limit * 2,
                                        retrieval_similarity_threshold)
        found == SelectSeq(vector_results, LAMBDA r : r.memory_id \in DOMAIN d.memories)
        memories == [k \in 1..Len(found) |->
                        RowToDict(found[k].memory_id, d.memories[found[k].memory_id])]
        similarity_scores ==
            [id \in {vector_results[k].memory_id : k \in 1..Len(vector_results)} |->
                vector_results[CHOOSE k \in 1..Len(vector_results) :
                                  vector_results[k].memory_id = id].similarity]
        scored_memories == score_memories(memories, similarity_scores, weights)
        filtered_memories == apply_filters(scored_memories, filters)
        result_memories == Take(SortByScore(filtered_memories), limit)
    IN  [memories |-> result_memories, total |-> Len(result_memories), limit |-> limit]

QueryFilters ==
    {NoFilters,
     [NoFilters EXCEPT !.priority = "HIGH"],
     [NoFilters EXCEPT !.tags = <<Tag(<<"a">>)>>],
     [NoFilters EXCEPT !.tags = <<Tag(<<"b">>), Tag(<<"a">>)>>],
     [NoFilters EXCEPT !.start = 2, !.end = 2],
     [priority |-> "LOW", tags |-> <<Tag(<<"a">>)>>, start |-> NoTime, end |-> 1]}

\* settings.retrieval.scoring_weights: the default, or one that favours recency
QueryWeights ==
    {DefaultWeights,
     [similarity |-> 50, recency |-> Unit, priority |-> weight_priority,
      usage |-> weight_usage]}

\* the filters are varied under the default weights, the weights without filters
QuerySettings ==
    {<<f, w>> \in QueryFilters \X QueryWeights : f = NoFilters \/ w = DefaultWeights}

QSearch(q, limit, filters, weights) ==
    /\ call = NoCall
    /\ call' = Applied("search_memory", <<q, limit, filters, weights>>,
                       search_memory(db, q, limit, filters, weights))
    /\ QueryFrame

NextQuery ==
    \/ \E q \in QueryVectors, limit \in 1..NumRows, threshold \in QueryThresholds :
         QVectorSearch(q, limit, threshold)
    \/ \E q \in QueryVectors, limit \in 1..(MaxLimit + 1), fw \in QuerySettings :
         QSearch(q, limit, fw[1], fw[2])

SpecQuery == InitQuery /\ [][NextQuery]_vars

\* ------------------------------------------- a write under lock contention
\* sqlite3.connect(path) leaves the timeout at its default of 5 seconds, which
\* installs SQLite's busy handler: a connection that finds the write lock taken
\* sleeps and tries again, with the delays of the handler's table, until the
\* timeout is used up. Time is scaled: the timeout reads 5, the table 1, 2, 5.
busy_timeout == 5

BusyDelays == <<1, 2, 5>>

BusyTotals == <<0, 1, 3>>

\* variant: the handler sleeps on however long the connection has waited
busy_delay_unbounded(count) ==
    IF count < Len(BusyDelays) THEN BusyDelays[count + 1]
    ELSE BusyDelays[Len(BusyDelays)]

\* the handler called for the count-th time in a row: the sleep before the
\* next attempt, 0 when the connection must give up
busy_delay(count) ==
    LET n     == Len(BusyDelays)
        delay == IF count < n THEN BusyDelays[count + 1] ELSE BusyDelays[n]
        prior == IF count < n THEN BusyTotals[count + 1]
                 ELSE BusyTotals[n] + delay * (count - (n - 1))
    IN  IF prior + delay > busy_timeout
        THEN (IF busy_timeout - prior <= 0 THEN 0 ELSE busy_timeout - prior)
        ELSE delay

\* insert_memory is called with the content, hash and embedding of a store
BusyBegin(t, c) ==
    /\ th[t].pc = "idle"
    /\ th' = [th EXCEPT ![t] = [IdleThread EXCEPT
                 !.pc = "store_insert", !.content = c, !.priority = "NORMAL",
                 !.hash = generate_content_hash(c),
                 !.embedding = generate_embedding(c)]]
    /\ Continue(t, <<>>)
    /\ UNCHANGED <<db, tx, wlock, cache, issued, deletedIds, hist, cres, rlock, call>>

\* the INSERT finds the write lock taken and the handler grants another sleep
BusyWait(t) ==
    /\ th[t].pc = "store_insert"
    /\ InsertArgsValid(t)
    /\ wlock # 0
    /\ busy_delay(th[t].busy) > 0
    /\ th' = [th EXCEPT ![t].busy = @ + 1,
                        ![t].slept = busy_delay(th[t].busy),
                        ![t].waited = @ + busy_delay(th[t].busy)]
    /\ Continue(t, calls[t])
    /\ UNCHANGED <<db, tx, wlock, cache, issued, deletedIds, hist, cres, rlock, call>>

\* the handler grants no further sleep: the INSERT fails with "database is
\* locked", the connection rolls back, store_memory re-raises
BusyGiveUp(t) ==
    /\ th[t].pc = "store_insert"
    /\ InsertArgsValid(t)
    /\ wlock # 0
    /\ busy_delay(th[t].busy) = 0
    /\ Finish(t, Raise("store_memory", "RuntimeError", "OperationalError"),
              Append(calls[t], "insert_memory"))
    /\ UNCHANGED <<db, tx, wlock, cache, issued, deletedIds, hist, cres, rlock, call>>

\* what a thread inside insert_memory does next
BusyContinue(t) ==
    \/ StoreInsertRow(t)
    \/ StoreInsertVec(t)
    \/ StoreCommit(t)
    \/ BusyWait(t)
    \/ BusyGiveUp(t)

NextBusy == \E t \in Threads :
    \/ \E c \in Contents : BusyBegin(t, c)
    \/ StoreInsertRow(t)
    \/ StoreInsertVec(t)
    \/ StoreCommit(t)
    \/ BusyWait(t)
    \/ BusyGiveUp(t)

\* every thread inside insert_memory keeps running
SpecBusy ==
    Init /\ [][NextBusy]_vars /\ \A t \in Threads : WF_vars(BusyContinue(t))


\* ------------------------------------------------- listing of a fixed store
\* json.dumps of a non-empty list of tags, character by character
\* json.dumps of a string escapes the quote and the backslash
RECURSIVE json_escape(_)
json_escape(s) ==
    IF s = <<>> THEN <<>>
    ELSE (IF Head(s) \in {"\"", "\\"} THEN <<"\\", Head(s)>> ELSE <<Head(s)>>)
         \o json_escape(Tail(s))

RECURSIVE json_dumps_items(_)
json_dumps_items(tags) ==
    IF tags = <<>> THEN <<>>
    ELSE <<"\"">> \o json_escape(Head(tags)) \o <<"\"">>
         \o (IF Len(tags) > 1 THEN <<",", " ">> ELSE <<>>)
         \o json_dumps_items(Tail(tags))

json_dumps(tags) == <<"[">> \o json_dumps_items(tags) \o <<"]">>

\* SQLite's LIKE compares ASCII letters without regard to case (the letters
\* in play are a and b)
Fold(c) == IF c = "A" THEN "a" ELSE IF c = "B" THEN "b" ELSE c

\* text LIKE pattern: % stands for any run of characters, _ for any one
\* character, a letter for itself in either case
RECURSIVE Like(_, _)
Like(pattern, text) ==
    IF pattern = <<>> THEN text = <<>>
    ELSE IF Head(pattern) = "%"
         THEN Like(Tail(pattern), text) \/ (text # <<>> /\ Like(pattern, Tail(text)))
    ELSE IF text = <<>> THEN FALSE
    ELSE IF Head(pattern) = "_" THEN Like(Tail(pattern), Tail(text))
    ELSE Fold(Head(pattern)) = Fold(Head(text)) /\ Like(Tail(pattern), Tail(text))

\* the tags column is NULL for a memory without tags; tags LIKE '%"tag"%',
\* OR-ed over the filter tags
tags_like(filter_tags, tags) ==
    /\ tags # <<>>
    /\ \E i \in 1..Len(filter_tags) :
          Like(<<"%", "\"">> \o filter_tags[i] \o <<"\"", "%">>, json_dumps(tags))

\* the WHERE clause of DatabaseManager.list_memories
where_clause(d, id, filters) ==
    /\ filters.priority = "" \/ d.memories[id].priority = filters.priority
    /\ filters.tags = <<>> \/ tags_like(filters.tags, d.memories[id].tags)
    /\ filters.start = NoTime \/ d.memories[id].created_at >= filters.start
    /\ filters.end = NoTime \/ d.memories[id].created_at <= filters.end

\* the columns of the memories table
Columns ==
    {"id", "content", "content_hash", "priority", "category", "tags", "project_id",
     "source", "created_at", "updated_at", "embedding_model",
     "embedding_model_version", "embedding_dimension", "access_count",
     "last_accessed_at", "usage_contexts"}

\* what ORDER BY {sort_by} is given here: four columns and one expression
SortExpressions == {"id", "created_at", "priority", "access_count", "-id"}

\* the value ORDER BY compares; priority is text, compared as text
order_value(d, id, sort_by) ==
    IF sort_by = "id" THEN id
    ELSE IF sort_by = "-id" THEN 0 - id
    ELSE IF sort_by = "priority"
         THEN (IF d.memories[id].priority = "CORE" THEN 1
               ELSE IF d.memories[id].priority = "HIGH" THEN 2
               ELSE IF d.memories[id].priority = "LOW" THEN 3 ELSE 4)
    ELSE d.memories[id][sort_by]

\* row x comes before row y; rows equal under the sort key come in the order
\* of the statement's plan, by rowid upwards or downwards
Before(d, x, y, sort_by, desc, ties_desc) ==
    LET kx == order_value(d, x, sort_by)
        ky == order_value(d, y, sort_by)
    IN  IF kx # ky THEN (IF desc THEN kx > ky ELSE kx < ky)
        ELSE (IF ties_desc THEN x > y ELSE x < y)

RECURSIVE OrderBy(_, _, _, _, _)
OrderBy(d, S, sort_by, desc, ties_desc) ==
    IF S = {} THEN <<>>
    ELSE LET first == CHOOSE x \in S :
                         \A y \in S \ {x} : Before(d, x, y, sort_by, desc, ties_desc)
         IN  <<first>> \o OrderBy(d, S \ {first}, sort_by, desc, ties_desc)

\* variant: the rows equal under the sort key change their order from the
\* first page to the later ones
list_memories_rows_replanned(d, filters, sort_by, desc, ties_desc, limit, offset) ==
    LET match == {i \in DOMAIN d.memories : where_clause(d, i, filters)}
        order == OrderBy(d, match, sort_by, desc,
                         IF offset = 0 THEN ties_desc ELSE ~ties_desc)
        hi    == IF Len(order) < offset + limit THEN Len(order) ELSE offset + limit
    IN  [k \in 1..(IF hi > offset THEN hi - offset ELSE 0) |->
            RowToDict(order[offset + k], d.memories[order[offset + k]])]

\* DatabaseManager.list_memories: SELECT * ... WHERE ... ORDER BY ... LIMIT ? OFFSET ?
list_memories_rows(d, filters, sort_by, desc, ties_desc, limit, offset) ==
    LET match == {i \in DOMAIN d.memories : where_clause(d, i, filters)}
        order == OrderBy(d, match, sort_by, desc, ties_desc)
        hi    == IF Len(order) < offset + limit THEN Len(order) ELSE offset + limit
    IN  [k \in 1..(IF hi > offset THEN hi - offset ELSE 0) |->
            RowToDict(order[offset + k], d.memories[order[offset + k]])]

\* variant: the service asks the store for limit rows, not limit + 1
list_memories_exact(d, filters, sort_by, desc, ties_desc, limit, offset) ==
    LET memories == list_memories_rows(d, filters, sort_by, desc, ties_desc,
                                       limit, offset)
        has_more == Len(memories) > limit
    IN  [success |-> TRUE, memories |-> Take(memories, limit),
         total |-> Len(Take(memories, limit)), limit |-> limit, offset |-> offset,
         has_more |-> has_more, error |-> ""]

\* MemoryService.list_memories: one row more than the limit is requested
list_memories(d, filters, sort_by, desc, ties_desc, limit, offset) ==
    LET memories == list_memories_rows(d, filters, sort_by, desc, ties_desc,
                                       limit + 1, offset)
        has_more == Len(memories) > limit
    IN  [success |-> TRUE, memories |-> Take(memories, limit),
         total |-> Len(Take(memories, limit)), limit |-> limit, offset |-> offset,
         has_more |-> has_more, error |-> ""]

ListFailed(error) ==
    [success |-> FALSE, memories |-> <<>>, total |-> 0, limit |-> 0, offset |-> 0,
     has_more |-> FALSE, error |-> error]

\* the list_memories tool: ListMemoriesInput admits any string as sort_by and
\* ASC or DESC as sort_order; a sort_by SQLite cannot resolve makes the
\* statement fail, which the tool reports
list_memories_tool(d, filters, sort_by, sort_order, ties_desc, limit, offset) ==
    IF sort_order \notin {"ASC", "DESC"} THEN ListFailed("ValidationError")
    ELSE IF sort_by \notin SortExpressions THEN ListFailed("OperationalError")
    ELSE list_memories(d, filters, sort_by, sort_order = "DESC", ties_desc,
                       limit, offset)

\* the stores listed: those of QueryStores whose memories carry no tags
ListStores ==
    {d \in QueryStores : \A i \in DOMAIN d.memories : d.memories[i].tags = <<>>}

InitList ==
    /\ db \in ListStores
    /\ tx = EmptyDb
    /\ wlock = 0
    /\ cache = <<>>
    /\ th = [t \in Threads |-> IdleThread]
    /\ calls = [t \in Threads |-> <<>>]
    /\ last = NoLast
    /\ issued = <<>>
    /\ deletedIds = {}
    /\ hist = <<>>
    /\ cres = NoCacheResult
    /\ rlock = 0
    /\ call = NoCall

ListFilters ==
    {NoFilters,
     [NoFilters EXCEPT !.priority = "HIGH"],
     [NoFilters EXCEPT !.start = 2],
     [NoFilters EXCEPT !.priority = "LOW", !.end = 1]}

\* <<sort_by, sort_order, order of the rows equal under the key>>
SortChoices ==
    {<<"id", "ASC", FALSE>>, <<"id", "DESC", FALSE>>,
     <<"created_at", "ASC", FALSE>>, <<"created_at", "DESC", TRUE>>,
     <<"priority", "DESC", FALSE>>, <<"access_count", "ASC", TRUE>>,
     <<"-id", "ASC", FALSE>>, <<"no_such_column", "ASC", FALSE>>,
     <<"created_at", "asc", FALSE>>}

FirstOffsets == {0, 1, NumRows + 1}

\* a page and the walk it belongs to: the order of equal rows under the
\* statement, the offset the walk began at, the ids of its earlier pages
ListPage(filters, sort, limit, offset, first, seen) ==
    Applied("list_memories",
            <<filters, sort[1], sort[2], limit, offset,
              [ties_desc |-> sort[3], first |-> first, seen |-> seen]>>,
            list_memories_tool(db, filters, sort[1], sort[2], sort[3], limit, offset))

\* the list_memories tool called with any filters, sort and page
QList(filters, sort, limit, offset) ==
    /\ call = NoCall
    /\ call' = ListPage(filters, sort, limit, offset, offset, <<>>)
    /\ QueryFrame

\* the client asks for the next page while has_more is set
QListNext ==
    /\ call.fn = "list_memories"
    /\ call.result.success
    /\ call.result.has_more
    /\ call' = ListPage(call.args[1], <<call.args[2], call.args[3], call.args[6].ties_desc>>,
                        call.args[4], call.args[5] + call.args[4], call.args[6].first,
                        call.args[6].seen
                          \o [k \in 1..Len(call.result.memories) |->
                                 call.result.memories[k].id])
    /\ QueryFrame

NextList ==
    \/ \E filters \in ListFilters, sort \in SortChoices,
          limit \in 1..(MaxLimit + 1), offset \in FirstOffsets :
         QList(filters, sort, limit, offset)
    \/ QListNext

SpecList == InitList /\ [][NextList]_vars


\* ------------------------------------------------- the two tag filters
\* tags over characters of the permitted alphabet [A-Za-z0-9 _\-.]
TagChars == {"a", "b", "A", "_"}

Tags == UNION {[1..n -> TagChars] : n \in 1..MaxTagLen}

\* a memory carries no tag, one tag or two
TagLists == {<<>>} \cup {<<x>> : x \in Tags} \cup {<<x, y>> : x, y \in Tags}

\* the stores left by one committed insert with any of these tag lists
TagStores ==
    {[memories |-> <<QueryRow(1, [priority |-> "NORMAL", tags |-> tl, created_at |-> 2])>>,
      vec      |-> <<generate_embedding(1)>>,
      seq      |-> 1] : tl \in TagLists}

InitTags ==
    /\ db \in TagStores
    /\ tx = EmptyDb
    /\ wlock = 0
    /\ cache = <<>>
    /\ th = [t \in Threads |-> IdleThread]
    /\ calls = [t \in Threads |-> <<>>]
    /\ last = NoLast
    /\ issued = <<>>
    /\ deletedIds = {}
    /\ hist = <<>>
    /\ cres = NoCacheResult
    /\ rlock = 0
    /\ call = NoCall

\* the memories a tag filter selects: in the store by list_memories, in
\* process by _apply_filters over every stored memory
QTagFilter(tag) ==
    /\ call = NoCall
    /\ LET filters == [NoFilters EXCEPT !.tags = <<tag>>]
           ids     == IdsInOrder(DOMAIN db.memories, FALSE)
           listed  == list_memories_rows(db, filters, "id", FALSE, FALSE,
                                         Len(ids), 0)
           kept    == apply_filters([k \in 1..Len(ids) |->
                                        RowToDict(ids[k], db.memories[ids[k]])],
                                    filters)
       IN  call' = Applied("tag_filter", <<filters>>,
                           [store   |-> {listed[k].id : k \in 1..Len(listed)},
                            process |-> {kept[k].id : k \in 1..Len(kept)}])
    /\ QueryFrame

NextTags == \E tag \in Tags : QTagFilter(tag)

SpecTags == InitTags /\ [][NextTags]_vars


\* ------------------------------------------ ranking of a candidate list
\* score_memories applied to any list of at most MaxCands candidates, with or
\* without an id, under any of the configurable weight sets below
Candidates ==
    {[id |-> i, priority |-> p, created_at |-> 2, access_count |-> 0] :
        i \in {NoId} \cup (1..MaxId), p \in {"HIGH", "LOW"}}

CandidateLists ==
    UNION {[1..n -> Candidates] : n \in 0..MaxCands}

\* the similarity dictionary: empty, the same for every id, or one under
\* which a HIGH and a LOW candidate meet at the default weights
SimilarityChoices ==
    {[i \in {} |-> 0],
     [i \in 1..MaxId |-> Unit],
     [i \in 1..MaxId |-> IF i = 1 THEN 65 ELSE 90]}

\* ScoringWeights: each weight a number of [0, 1], no condition on the sum
WeightSets ==
    {[similarity |-> ws, recency |-> weight_recency, priority |-> wp,
      usage |-> weight_usage] :
        ws \in {weight_similarity, Unit}, wp \in {0, weight_priority, Unit}}

QScore(memories, similarity_scores, weights) ==
    /\ call = NoCall
    /\ call' = Applied("score_memories", <<memories, similarity_scores, weights>>,
                       score_memories(memories, similarity_scores, weights))
    /\ QueryFrame

NextScore ==
    \E memories \in CandidateLists, similarity_scores \in SimilarityChoices,
       weights \in WeightSets :
         QScore(memories, similarity_scores, weights)

SpecScore == Init /\ [][NextScore]_vars


\* ------------------------------------------------ the tags column as text
\* here the tags column of a row holds what SQLite holds: NULL (the empty
\* tuple) or a text, character by character
\* a Python value for tags: None, or a list of strings
None == [null |-> TRUE, items |-> <<>>]

List(tags) == [null |-> FALSE, items |-> tags]

\* tags_json = json.dumps(tags) if tags else None
tags_json(tags) ==
    IF tags.null \/ tags.items = <<>> THEN <<>> ELSE json_dumps(tags.items)

JsonError == [ok |-> FALSE, value |-> <<>>, rest |-> <<>>]

RECURSIVE SkipSpaces(_)
SkipSpaces(text) ==
    IF text # <<>> /\ Head(text) = " " THEN SkipSpaces(Tail(text)) ELSE text

\* the characters of a JSON string after its opening quote, up to the closing
\* one
RECURSIVE scan_string(_, _)
scan_string(text, acc) ==
    IF text = <<>> THEN JsonError
    ELSE IF Head(text) = "\"" THEN [ok |-> TRUE, value |-> acc, rest |-> Tail(text)]
    ELSE IF Head(text) = "\\"
         THEN IF Len(text) >= 2 /\ text[2] \in {"\"", "\\"}
              THEN scan_string(Tail(Tail(text)), Append(acc, text[2]))
              ELSE JsonError
    ELSE scan_string(Tail(text), Append(acc, Head(text)))

\* the items of a JSON array of strings, from the first character of an item
RECURSIVE scan_items(_, _)
scan_items(text, acc) ==
    IF text = <<>> \/ Head(text) # "\"" THEN JsonError
    ELSE LET s == scan_string(Tail(text), <<>>)
             r == SkipSpaces(s.rest)
         IN  IF ~s.ok \/ r = <<>> THEN JsonError
             ELSE IF Head(r) = "]"
                  THEN IF SkipSpaces(Tail(r)) = <<>>
                       THEN [ok |-> TRUE, value |-> Append(acc, s.value), rest |-> <<>>]
                       ELSE JsonError
             ELSE IF Head(r) = ","
                  THEN scan_items(SkipSpaces(Tail(r)), Append(acc, s.value))
             ELSE JsonError

\* json.loads of a text that is an array of strings or no JSON at all: the
\* list, or JSONDecodeError
json_loads(text) ==
    LET t == SkipSpaces(text)
        r == IF t = <<>> THEN <<>> ELSE SkipSpaces(Tail(t))
    IN  IF t = <<>> \/ Head(t) # "[" \/ r = <<>> THEN JsonError
        ELSE IF Head(r) = "]"
             THEN IF SkipSpaces(Tail(r)) = <<>>
                  THEN [ok |-> TRUE, value |-> <<>>, rest |-> <<>>]
                  ELSE JsonError
        ELSE scan_items(r, <<>>)

\* _row_to_dict raises when json.loads does
row_to_dict_raises(result) == result.tags # <<>> /\ ~json_loads(result.tags).ok

\* _row_to_dict after dict(row): a tags column that is not NULL nor empty is
\* replaced by json.loads of it
row_to_dict(result) ==
    [result EXCEPT !.tags = IF @ = <<>> THEN None ELSE List(json_loads(@).value)]

Failed(error) == [success |-> FALSE, memories |-> <<>>, error |-> error]

Returned(memories) == [success |-> TRUE, memories |-> memories, error |-> ""]

\* get_memory_by_id: the row read, as a list of none or one
get_memory_by_id(d, id) ==
    IF id \notin DOMAIN d.memories THEN Returned(<<>>)
    ELSE IF row_to_dict_raises(RowToDict(id, d.memories[id]))
         THEN Failed("JSONDecodeError")
    ELSE Returned(<<row_to_dict(RowToDict(id, d.memories[id]))>>)

\* MemoryService.list_memories over DatabaseManager.list_memories: every
\* fetched row goes through _row_to_dict
list_memories_text(d, limit, offset) ==
    LET rows == list_memories_rows(d, NoFilters, "id", FALSE, FALSE, limit + 1, offset)
    IN  IF \E k \in 1..Len(rows) : row_to_dict_raises(rows[k])
        THEN Failed("JSONDecodeError")
        ELSE Returned(Take([k \in 1..Len(rows) |-> row_to_dict(rows[k])], limit))

\* MemoryService.search_memory: every candidate of the vector search is
\* fetched with get_memory_by_id
search_memory_text(d, query_embedding, limit) ==
    LET vector_results == vector_search(d, query_embedding, limit * 2,
                                        retrieval_similarity_threshold)
        found == SelectSeq(vector_results, LAMBDA r : r.memory_id \in DOMAIN d.memories)
        fetched == [k \in 1..Len(found) |-> get_memory_by_id(d, found[k].memory_id)]
        similarity_scores ==
            [id \in {vector_results[k].memory_id : k \in 1..Len(vector_results)} |->
                vector_results[CHOOSE k \in 1..Len(vector_results) :
                                  vector_results[k].memory_id = id].similarity]
    IN  IF \E k \in 1..Len(fetched) : ~fetched[k].success
        THEN Failed("JSONDecodeError")
        ELSE Returned(Take(SortByScore(apply_filters(
                 score_memories([k \in 1..Len(fetched) |-> fetched[k].memories[1]],
                                similarity_scores, DefaultWeights),
                 NoFilters)), limit))

\* the tags given to store_memory: none, the empty list, one tag, two tags, a
\* tag with a quote and a backslash in it
GivenTags ==
    {None, List(<<>>), List(<<Tag(<<"a">>)>>), List(<<Tag(<<"b">>), Tag(<<"a">>)>>),
     List(<<Tag(<<"\"", "\\">>)>>)}

\* texts that are not JSON: a list cut short, a bare word
CorruptTexts == {<<"[", "\"", "a">>, <<"a">>}

\* a committed store_memory of a new content with the given tags
TextStore(tags) ==
    /\ call = NoCall
    /\ NextRowId(db) <= MaxId
    /\ LET id  == NextRowId(db)
           row == InsertRow(db, id, generate_content_hash(id), "NORMAL", get_dimension)
       IN  /\ db' = InsertVec([row EXCEPT !.memories[id].tags = tags_json(tags)],
                              id, generate_embedding(id))
           /\ issued' = Put(issued, id, tags)
    /\ UNCHANGED <<tx, wlock, cache, th, calls, last, deletedIds, hist, cres, rlock, call>>

\* another program writes a text that is not JSON into the tags column of a row
TextCorrupt(id, text) ==
    /\ call = NoCall
    /\ id \in DOMAIN db.memories
    /\ db' = [db EXCEPT !.memories[id].tags = text]
    /\ UNCHANGED <<tx, wlock, cache, th, calls, last, issued, deletedIds, hist, cres,
                   rlock, call>>

\* MemoryService.get_memory: the read, then the access count of a row found
TextGet(id) ==
    /\ call = NoCall
    /\ call' = Applied("get_memory", <<id>>, get_memory_by_id(db, id))
    /\ db' = IF get_memory_by_id(db, id).memories # <<>> THEN UpdateAccess(db, id) ELSE db
    /\ UNCHANGED <<tx, wlock, cache, th, calls, last, issued, deletedIds, hist, cres, rlock>>

TextList(limit, offset) ==
    /\ call = NoCall
    /\ call' = Applied("list_memories", <<limit, offset>>,
                       list_memories_text(db, limit, offset))
    /\ QueryFrame

TextSearch(q, limit) ==
    /\ call = NoCall
    /\ call' = Applied("search_memory", <<q, limit>>, search_memory_text(db, q, limit))
    /\ QueryFrame

NextText ==
    \/ \E tags \in GivenTags : TextStore(tags)
    \/ \E id \in 1..MaxId, text \in CorruptTexts : TextCorrupt(id, text)
    \/ \E id \in 1..MaxId : TextGet(id)
    \/ \E limit \in 1..MaxId, offset \in 0..1 : TextList(limit, offset)
    \/ \E c \in 1..MaxId, limit \in 1..MaxId : TextSearch(generate_embedding(c), limit)

SpecText == Init /\ [][NextText]_vars


\* ------------------------------------------------ get_memory calls alone
\* the calls of get_memory a memory receives in a behaviour
MaxGets == 3

\* the stores left by committed inserts of one or more contents
GetStores ==
    {[memories |-> [i \in 1..n |-> NewRow(i, generate_content_hash(i), "NORMAL",
                                          get_dimension)],
      vec      |-> [i \in 1..n |-> generate_embedding(i)],
      seq      |-> n] : n \in 1..MaxId}

InitGet ==
    /\ db \in GetStores
    /\ tx = EmptyDb
    /\ wlock = 0
    /\ cache = <<>>
    /\ th = [t \in Threads |-> IdleThread]
    /\ calls = [t \in Threads |-> <<>>]
    /\ last = NoLast
    /\ issued = <<>>
    /\ deletedIds = {}
    /\ hist = <<>>
    /\ cres = NoCacheResult
    /\ rlock = 0
    /\ call = NoCall

NextGet ==
    \E t \in Threads :
       \/ \E id \in 1..MaxId : GetWithin(t, id, MaxGets)
       \/ GetUpdate(t)

SpecGet == InitGet /\ [][NextGet]_vars


\* --------------------------------------- DatabaseManager.insert_memory alone
\* the arguments the callers of insert_memory may pass: vectors one shorter
\* than, as long as and one longer than the configured dimension, and a
\* configured dimension that is or is not the width of the vector table
InsertLengths == {Dim - 1, Dim, Dim + 1}

InsertVector(c, n) ==
    [i \in 1..n |-> IF i = 1 THEN Unit ELSE IF i = 2 THEN 10 * (c - 1) ELSE 0]

InsertDimensions == {Dim, Dim + 1}

\* store_memory reaches its call of insert_memory with content c, priority p,
\* embedding e and embedding_dimension dm
InsertCall(t, c, p, e, dm) ==
    /\ th[t].pc = "idle"
    /\ UNCHANGED <<hist, cres, rlock, call>>
    /\ CanAllocate
    /\ th' = [th EXCEPT ![t] = [IdleThread EXCEPT
                 !.pc = "store_insert", !.content = c, !.priority = p,
                 !.hash = generate_content_hash(c), !.embedding = e,
                 !.dimension = dm]]
    /\ Continue(t, <<>>)
    /\ UNCHANGED <<db, tx, wlock, cache, issued, deletedIds>>

NextInsert ==
    \E t \in Threads :
       \/ \E c \in Contents, p \in PriorityInputs, n \in InsertLengths,
             dm \in InsertDimensions : InsertCall(t, c, p, InsertVector(c, n), dm)
       \/ StoreInsertRow(t)
       \/ StoreInsertLocked(t)
       \/ StoreInsertVec(t)
       \/ StoreCommit(t)

SpecInsert == Init /\ [][NextInsert]_vars


\* ------------------------------------------------------------------ claims
TablesAgree(d) == DOMAIN d.memories = DOMAIN d.vec

Stored(c) == \E i \in DOMAIN db.memories : db.memories[i].content = c

IdOf(c) == CHOOSE i \in DOMAIN db.memories : db.memories[i].content = c

\* thread t takes the step
Steps(t) == th'[t] # th[t] \/ last'.thread = t

\* C1: in every state the memories table and the vector table hold the same
\* ids: each memory row has its vector row and no vector row is an orphan.
C1_TablesAgree == TablesAgree(db)

C1_Witness ==
    /\ db.memories # <<>>
    /\ deletedIds # {}
    /\ last.ret.op \in {"search_memory", "list_memories"}

\* C2: no two stored memories have the same content_hash, also when stores of
\* the same content race.
C2_HashesDistinct ==
    \A i, j \in DOMAIN db.memories :
        i # j => db.memories[i].content_hash # db.memories[j].content_hash

C2_Witness ==
    /\ last.ret.cause = "IntegrityError"
    /\ \E i \in DOMAIN db.memories : TRUE

\* C3: store_memory of content that is already stored returns the existing id
\* with duplicate and success set, and changes neither table.
C3_DuplicateStore ==
    [][\A t \in Threads, c \in Contents, p \in PriorityInputs :
         (StoreProbe(t, c, p) /\ Stored(c)) =>
            /\ last'.ret.success /\ last'.ret.duplicate
            /\ last'.ret.memory_id = IdOf(c)
            /\ last'.ret.error = ""
            /\ db' = db /\ tx' = tx]_vars

C3_Witness ==
    /\ last.ret.op = "store_memory"
    /\ last.ret.duplicate /\ last.ret.success
    /\ last.ret.memory_id \in DOMAIN db.memories
    /\ DOMAIN db.vec = DOMAIN db.memories

\* C4: a store_memory that returns an exact duplicate has made no call but the
\* hash probe: no model call, no cache read or write, no vector search, no
\* insert; the cache is as it was.
C4_DuplicateNoEmbedding ==
    [][\A t \in Threads :
         (last'.thread = t /\ last'.ret.op = "store_memory" /\ last'.ret.duplicate) =>
            /\ last'.calls = <<"check_duplicate_hash">>
            /\ calls[t] = <<>>
            /\ cache' = cache
            /\ wlock' = wlock /\ tx' = tx]_vars

C4_Witness ==
    /\ last.ret.op = "store_memory"
    /\ last.ret.duplicate
    /\ cache # <<>>
    /\ last.calls = <<"check_duplicate_hash">>

\* C5: once delete_memory(id) has succeeded the id stays absent: a get_memory(id)
\* that starts later returns absent and a delete of the id returns false.
C5_DeletedStaysDeleted ==
    /\ [](deletedIds \cap DOMAIN db.memories = {})
    /\ [][\A t \in Threads :
            /\ \A id \in deletedIds :
                 GetCall(t, id) =>
                    /\ last'.ret.op = "get_memory" /\ ~last'.ret.success
                    /\ last'.ret.rows = <<>> /\ last'.ret.error = ""
            /\ (DeleteCommit(t) /\ th[t].memory_id \in deletedIds) =>
                    /\ ~last'.ret.success /\ last'.ret.memory_id = NoId]_vars

C5_Witness ==
    /\ \E i \in deletedIds : \E j \in DOMAIN db.memories :
          db.memories[j].content = issued[i]
    /\ last.ret.op \in {"get_memory", "delete_memory"}
    /\ ~last.ret.success /\ last.ret.error = ""

\* C6: an insert that commits returns duplicate=false and an id that is at
\* least 1 and greater than every id issued before, deleted ones included.
C6_IdsIncrease ==
    [][\A t \in Threads :
         StoreCommit(t) =>
            /\ last'.ret.success /\ ~last'.ret.duplicate
            /\ last'.ret.memory_id >= 1
            /\ \A i \in DOMAIN issued : last'.ret.memory_id > i
            /\ last'.ret.memory_id \in DOMAIN db'.memories]_vars

C6_Witness ==
    \E i \in deletedIds : \E j \in DOMAIN db.memories :
        /\ i < j
        /\ issued[i] = issued[j]
        /\ db.memories[j].content = issued[j]

\* C7: while a transaction is open every step either leaves the committed
\* tables alone or installs the whole working copy, in which both tables hold
\* the same ids; a step that ends a transaction with an error leaves them alone.
C7_Atomic ==
    [][wlock # 0 =>
         /\ \/ db' = db
            \/ db' = tx /\ TablesAgree(tx) /\ wlock' = 0
         /\ (last'.ret.error # "" /\ last'.thread = wlock) =>
                db' = db /\ wlock' = 0 /\ tx' = EmptyDb]_vars

C7_Witness ==
    /\ last.ret.cause = "DatabaseError" \/ last.ret.error = "DatabaseError"
    /\ db.memories # <<>>
    /\ wlock = 0

\* C8: an insert whose hash is already stored fails, with IntegrityError once
\* it has the write lock, and leaves both tables and the working copy alone;
\* IntegrityError is raised in no other case.
C8_DuplicateInsertRejected ==
    [][\A t \in Threads :
         /\ (th[t].pc = "store_insert" /\ InsertArgsValid(t) /\ Steps(t)
               /\ \E i \in DOMAIN db.memories :
                     db.memories[i].content_hash = th[t].hash) =>
                /\ last'.ret.error = "RuntimeError"
                /\ wlock = 0 => last'.ret.cause = "IntegrityError"
                /\ db' = db /\ tx' = tx /\ wlock' = wlock
         /\ (last'.thread = t /\ last'.ret.cause = "IntegrityError") =>
                /\ th[t].pc = "store_insert"
                /\ \E i \in DOMAIN db.memories :
                      db.memories[i].content_hash = th[t].hash]_vars

C8_Witness ==
    /\ last.ret.cause = "IntegrityError"
    /\ last.calls[Len(last.calls)] = "insert_memory"
    /\ TablesAgree(db)

\* C9: a store_memory whose insert is rejected for a duplicate hash returns
\* the successful duplicate response naming the row the other call inserted.
C9_RaceRecovered ==
    [][\A t \in Threads :
         (th[t].pc = "store_insert" /\ InsertArgsValid(t) /\ Steps(t) /\ wlock = 0
            /\ \E i \in DOMAIN db.memories :
                  db.memories[i].content_hash = th[t].hash) =>
             /\ last'.ret.success /\ last'.ret.duplicate
             /\ last'.ret.memory_id = check_duplicate_hash(db, th[t].hash)]_vars

\* C10: when the model fails in store_memory the call ends with an error and
\* has written nothing: no row, no vector, no cache entry, and the cache
\* lookup before it was a miss that left the cache as it was.
C10_ModelFailureAborts ==
    [][\A t \in Threads :
         /\ (th[t].pc = "store_cache_get" /\ th'[t].pc = "store_embed") =>
                cache' = cache /\ db' = db
         /\ (th[t].pc = "store_embed" /\ th'[t].pc = "idle") =>
                /\ last'.ret.error = "RuntimeError" /\ ~last'.ret.success
                /\ last'.calls = <<"check_duplicate_hash", "cache.get",
                                   "generate_embedding">>
                /\ db' = db /\ tx' = tx /\ cache' = cache]_vars

C10_Witness ==
    /\ last.ret.op = "store_memory"
    /\ last.ret.cause = "ModelError"
    /\ db.memories # <<>>

\* C11: a store whose near-duplicate search found a stored memory with another
\* content hash and similarity >= the dedup threshold goes on to the insert, and
\* when it commits it answers duplicate = false with a new id different from
\* near_duplicate.memory_id, near_duplicate.similarity >= the threshold, and the
\* number of rows has grown by exactly one.
C11_NearDuplicateInserted ==
    [][\A t \in Threads :
         /\ (/\ th[t].pc = "store_near_hydrate"
             /\ Steps(t)
             /\ ~(/\ th[t].near.memory_id \in DOMAIN db.memories
                  /\ db.memories[th[t].near.memory_id].content_hash = th[t].hash))
            => /\ th'[t].pc = "store_insert"
               /\ th'[t].near = th[t].near
               /\ th[t].near.similarity >= dedup_similarity_threshold
               /\ db' = db
         /\ (/\ th[t].pc = "store_commit"
             /\ last'.thread = t
             /\ th[t].near # NoNear)
            => /\ last'.ret.success
               /\ ~last'.ret.duplicate
               /\ last'.ret.near_duplicate = th[t].near
               /\ last'.ret.memory_id # last'.ret.near_duplicate.memory_id
               /\ last'.ret.near_duplicate.similarity >= dedup_similarity_threshold
               /\ last'.ret.memory_id \in DOMAIN db'.memories \ DOMAIN db.memories
               /\ Cardinality(DOMAIN db'.memories) = Cardinality(DOMAIN db.memories) + 1
      ]_vars

C11_Witness ==
    /\ last.ret.op = "store_memory"
    /\ last.ret.success
    /\ ~last.ret.duplicate
    /\ last.ret.near_duplicate # NoNear
    /\ last.ret.near_duplicate.memory_id \in DOMAIN db.memories
    /\ last.ret.memory_id \in DOMAIN db.memories
    /\ db.memories[last.ret.near_duplicate.memory_id].content_hash
         # db.memories[last.ret.memory_id].content_hash

InLog(x, log) == \E i \in 1..Len(log) : log[i] = x

\* the fields of a stored memory other than its access bookkeeping
Frozen(row) == [row EXCEPT !.access_count = 0, !.last_accessed_at = FALSE]

\* thread t takes a step of search_memory or of list_memories
ReadStep(t) ==
    /\ Steps(t)
    /\ \/ th[t].pc \in {"search_vector", "search_hydrate"}
       \/ th[t].pc = "idle" /\ th'[t].pc = "search_vector"
       \/ th[t].pc = "idle" /\ last'.ret.op \in {"search_memory", "list_memories"}

\* C12: access_count of a memory is 0 when its row first appears and never
\* decreases while the row exists.
C12_AccessCountMonotone ==
    [][\A id \in DOMAIN db'.memories :
         IF id \in DOMAIN db.memories
         THEN db'.memories[id].access_count >= db.memories[id].access_count
         ELSE db'.memories[id].access_count = 0
      ]_vars

C12_Witness ==
    \E id \in DOMAIN db.memories :
       /\ db.memories[id].access_count >= 1
       /\ last.ret.op = "get_memory"
       /\ last.ret.memory_id = id

\* C13: no step of search_memory or list_memories changes the store, and every
\* step that changes access_count or last_accessed_at of a stored memory is the
\* update_access_count of a get_memory call.
C13_OnlyGetCounts ==
    [][/\ \A t \in Threads : ReadStep(t) => db' = db /\ tx' = tx
       /\ (\E id \in DOMAIN db.memories \cap DOMAIN db'.memories :
              \/ db'.memories[id].access_count # db.memories[id].access_count
              \/ db'.memories[id].last_accessed_at # db.memories[id].last_accessed_at)
          => \E t \in Threads :
               /\ th[t].pc = "get_update"
               /\ last'.thread = t
               /\ last'.ret.op = "get_memory"
               /\ InLog("update_access_count", last'.calls)
      ]_vars

C13_Witness ==
    /\ last.ret.op = "search_memory"
    /\ last.ret.success
    /\ last.ret.rows # <<>>
    /\ last.ret.rows[1].id \in DOMAIN db.memories
    /\ db.memories[last.ret.rows[1].id].access_count = 0
    /\ ~db.memories[last.ret.rows[1].id].last_accessed_at
    /\ InLog("get_memory_by_id", last.calls)

\* C14: get_memory(id) of a stored memory reads its row and then runs
\* update_access_count, which, completing, adds exactly 1 to the access_count of
\* that memory, sets its last_accessed_at and changes no other memory or field;
\* the call returns the row it read.  get_memory of an absent id answers absent
\* after get_memory_by_id alone and leaves the store unchanged.
C14_GetMemory ==
    [][\A t \in Threads :
         /\ (th[t].pc = "idle" /\ th'[t].pc = "get_update")
            => /\ th'[t].memory_id \in DOMAIN db.memories
               /\ th'[t].rows = <<db.memories[th'[t].memory_id]>>
               /\ db' = db
         /\ (th[t].pc = "get_update" /\ last'.thread = t /\ last'.ret.error = "")
            => /\ last'.ret.success
               /\ last'.ret.rows = th[t].rows
               /\ last'.calls = <<"get_memory_by_id", "update_access_count">>
               /\ db'.vec = db.vec
               /\ DOMAIN db'.memories = DOMAIN db.memories
               /\ \A i \in DOMAIN db.memories :
                    IF i = th[t].memory_id
                    THEN /\ db'.memories[i].access_count
                              = db.memories[i].access_count + 1
                         /\ db'.memories[i].last_accessed_at
                         /\ Frozen(db'.memories[i]) = Frozen(db.memories[i])
                    ELSE db'.memories[i] = db.memories[i]
         /\ (th[t].pc = "idle" /\ last'.thread = t /\ last'.ret.op = "get_memory")
            => /\ ~last'.ret.success
               /\ last'.ret.rows = <<>>
               /\ last'.ret.error = ""
               /\ last'.calls = <<"get_memory_by_id">>
               /\ db' = db
               /\ tx' = tx
      ]_vars

C14_Witness ==
    /\ last.ret.op = "get_memory"
    /\ last.ret.success
    /\ Cardinality(DOMAIN db.memories) = 2
    /\ last.ret.memory_id \in DOMAIN db.memories
    /\ db.memories[last.ret.memory_id].access_count = 1
    /\ \E i \in DOMAIN db.memories : db.memories[i].access_count = 0

\* C15: while a memory is stored, no step changes its id, content, content
\* hash, priority, embedding dimension or vector; only access_count and
\* last_accessed_at change.
C15_StoredFieldsFrozen ==
    [][\A id \in DOMAIN db.memories \cap DOMAIN db'.memories :
         /\ Frozen(db'.memories[id]) = Frozen(db.memories[id])
         /\ id \in DOMAIN db.vec /\ id \in DOMAIN db'.vec
         /\ db'.vec[id] = db.vec[id]
      ]_vars

C15_Witness ==
    \E id \in DOMAIN db.memories :
       /\ db.memories[id].access_count = 1
       /\ db.memories[id].last_accessed_at
       /\ db.memories[id].content = issued[id]
       /\ db.memories[id].content_hash = generate_content_hash(issued[id])
       /\ db.vec[id] = generate_embedding(issued[id])
       /\ deletedIds # {}

\* thread t takes a step of delete_memory
DeleteStep(t) ==
    /\ Steps(t)
    /\ \/ th[t].pc \in {"delete_vec", "delete_row", "delete_commit"}
       \/ th[t].pc = "idle" /\ th'[t].pc = "delete_vec"
       \/ th[t].pc = "idle" /\ last'.ret.op = "delete_memory"

\* C16: delete_memory with neither memory_id nor content_hash raises the
\* invalid-input error; with only a content_hash that matches no stored memory
\* it answers success = false, memory_id = null after the lookup alone, without
\* the store-level delete; in both cases the store is unchanged.
C16_DeleteNothing ==
    [][\A t \in Threads :
         /\ DeleteCall(t, NoId, EmptyContent)
            => /\ last'.thread = t
               /\ last'.ret = Raise("delete_memory", "ValueError", "")
               /\ last'.calls = <<>>
               /\ db' = db /\ tx' = tx /\ wlock' = wlock
         /\ \A c \in Contents :
              (DeleteCall(t, NoId, c) /\ ~Stored(c))
              => /\ last'.thread = t
                 /\ last'.ret.op = "delete_memory"
                 /\ last'.ret.error = ""
                 /\ ~last'.ret.success
                 /\ last'.ret.memory_id = NoId
                 /\ last'.calls = <<"get_memory_by_hash">>
                 /\ db' = db /\ tx' = tx /\ wlock' = wlock
      ]_vars

C16_Witness ==
    /\ last.ret.op = "delete_memory"
    /\ last.ret.error = ""
    /\ ~last.ret.success
    /\ last.ret.memory_id = NoId
    /\ last.calls = <<"get_memory_by_hash">>
    /\ DOMAIN db.memories # {}

\* C17: no step of delete_memory changes the embedding cache, neither its
\* entries nor their order; so, as long as the capacity rules eviction out, the
\* hash of every content stored so far stays in the cache, deleted or not, and
\* a store that finds its hash in the cache takes the vector from there and
\* never calls the model.
C17_DeleteKeepsCache ==
    /\ []((max_size >= NumContents)
          => \A i \in DOMAIN issued :
               /\ generate_content_hash(issued[i]) \in CacheKeys(cache)
               /\ CacheGetValue(cache, generate_content_hash(issued[i]))
                    = generate_embedding(issued[i]))
    /\ [][\A t \in Threads :
            /\ DeleteStep(t) => cache' = cache
            /\ (/\ th[t].pc = "store_cache_get"
                /\ Steps(t)
                /\ th[t].hash \in CacheKeys(cache))
               => /\ th'[t].pc = "store_near_search"
                  /\ th'[t].embedding = CacheGetValue(cache, th[t].hash)
                  /\ calls'[t] = <<"check_duplicate_hash", "cache.get">>
            /\ (/\ th[t].pc \in {"store_near_search", "store_near_hydrate",
                                 "store_insert", "store_insert_vec", "store_commit"}
                /\ Steps(t)
                /\ ~InLog("generate_embedding", calls[t]))
               => ~InLog("generate_embedding",
                         IF last'.thread = t THEN last'.calls ELSE calls'[t])
         ]_vars

C17_Witness ==
    /\ last.ret.op = "store_memory"
    /\ last.ret.success
    /\ ~last.ret.duplicate
    /\ InLog("cache.get", last.calls)
    /\ ~InLog("generate_embedding", last.calls)
    /\ last.ret.memory_id \in DOMAIN db.memories
    /\ \E i \in deletedIds : issued[i] = db.memories[last.ret.memory_id].content

\* the keys touched since the last clear, and the position of a key's last touch
Touched == {hist[i].key : i \in 1..Len(hist)}

LastTouch(k) == MaxOf({i \in 1..Len(hist) : hist[i].key = k})

\* the vector of the last set of key k since the last clear
LastSetValue(k) ==
    hist[MaxOf({i \in 1..Len(hist) : hist[i].key = k /\ hist[i].value # <<>>})].value

\* C18: after any sequence of get, set and clear, the cache holds at most
\* max_size entries, one per key, and size() reports that number.
C18_CacheBounded ==
    /\ Len(cache) <= max_size
    /\ Cardinality(CacheKeys(cache)) = Len(cache)
    /\ cres.op = "size" => cres.size = Len(cache) /\ cres.size <= max_size

C18_Witness ==
    /\ Len(cache) = max_size
    /\ \E k \in Touched : k \notin CacheKeys(cache)
    /\ cres.op = "size"
    /\ cres.size = max_size

\* C19: the cache is least-recently-used: its entries are ordered by last touch
\* (set, or get that hit), and a touched key is present exactly when fewer than
\* max_size other keys were touched after its last touch.  So a set of a new key
\* into a full cache removes exactly the entry touched longest ago and keeps the
\* others, a get that hits makes its entry the most recent, a get that misses
\* changes nothing, and after distinct inserts without re-access exactly the
\* last max_size keys are present.
C19_LeastRecentlyUsed ==
    /\ [](/\ \A i, j \in 1..Len(cache) :
               i < j => /\ 0 < LastTouch(cache[i].key)
                        /\ LastTouch(cache[i].key) < LastTouch(cache[j].key)
          /\ \A k \in Touched :
               k \in CacheKeys(cache)
               <=> Cardinality({k2 \in Touched : LastTouch(k2) > LastTouch(k)}) < max_size
          /\ (\A i, j \in 1..Len(hist) : i # j => hist[i].key # hist[j].key)
             => CacheKeys(cache)
                  = {hist[i].key : i \in {n \in 1..Len(hist) : n > Len(hist) - max_size}})
    /\ [][/\ (cres'.op = "get" /\ cres'.key \notin CacheKeys(cache))
             => cache' = cache /\ cres'.value = <<>>
          /\ (cres'.op = "get" /\ cres'.key \in CacheKeys(cache))
             => /\ cache'[Len(cache')].key = cres'.key
                /\ CacheRemove(cache', cres'.key) = CacheRemove(cache, cres'.key)
          /\ (/\ cres'.op = "set" /\ cres'.value # <<>>
              /\ cres'.key \notin CacheKeys(cache)
              /\ Len(cache) = max_size)
             => LET oldest == CHOOSE k \in CacheKeys(cache) :
                                 \A k2 \in CacheKeys(cache) : LastTouch(k) <= LastTouch(k2)
                IN  /\ CacheKeys(cache') = (CacheKeys(cache) \ {oldest}) \cup {cres'.key}
                    /\ CacheRemove(cache', cres'.key) = CacheRemove(cache, oldest)
         ]_vars

C19_Witness ==
    /\ Len(hist) = max_size + 2
    /\ \A i, j \in 1..max_size : i # j => hist[i].key # hist[j].key
    /\ \A i \in 1..max_size : hist[i].value # <<>>
    /\ hist[max_size + 1] = [key |-> hist[1].key, value |-> <<>>]
    /\ \A i \in 1..max_size : hist[max_size + 2].key # hist[i].key
    /\ cres.op = "set"
    /\ cres.key = hist[max_size + 2].key
    /\ Len(cache) = max_size
    /\ hist[1].key \in CacheKeys(cache)
    /\ hist[2].key \notin CacheKeys(cache)

\* C20: a set of a non-empty vector on a key already present replaces its
\* value, makes it the most recent entry, keeps the size and evicts nothing,
\* even at capacity; and every present key holds the vector of its last set,
\* which is what a get of it returns.
C20_SetReplaces ==
    /\ [](/\ \A k \in CacheKeys(cache) : CacheGetValue(cache, k) = LastSetValue(k)
          /\ (cres.op = "get" /\ cres.key \in CacheKeys(cache))
             => cres.value = LastSetValue(cres.key))
    /\ [][(/\ cres'.op = "set" /\ cres'.value # <<>>
           /\ cres'.key \in CacheKeys(cache))
          => /\ Len(cache') = Len(cache)
             /\ CacheKeys(cache') = CacheKeys(cache)
             /\ cache'[Len(cache')] = [key |-> cres'.key, value |-> cres'.value]
             /\ CacheRemove(cache', cres'.key) = CacheRemove(cache, cres'.key)
         ]_vars

C20_Witness ==
    /\ Len(cache) = max_size
    /\ Len(hist) = max_size + 2
    /\ Touched = CacheKeys(cache)
    /\ hist[1].key = hist[Len(hist) - 1].key
    /\ hist[Len(hist) - 1].value # <<>>
    /\ hist[Len(hist) - 1].value # hist[1].value
    /\ hist[Len(hist)] = [key |-> hist[1].key, value |-> <<>>]
    /\ cres = [op |-> "get", key |-> hist[1].key,
               value |-> hist[Len(hist) - 1].value, size |-> 0, thread |-> 0]

\* the cache a single caller gets from the touches hs, made one after another
RECURSIVE Replay(_)
Replay(hs) ==
    IF hs = <<>> THEN <<>>
    ELSE LET c == Replay(SubSeq(hs, 1, Len(hs) - 1))
             x == hs[Len(hs)]
         IN  IF x.value = <<>> THEN CacheAfterGet(c, x.key)
             ELSE CacheAfterSet(c, x.key, x.value)

Quiescent == rlock = 0 /\ \A t \in Threads : th[t].pc = "idle"

\* C21: cache calls from several threads are atomic: at most one thread is
\* inside a call, every call returns what it would return if the calls had run
\* one after another in the order they took the lock, and whenever no call is
\* running the cache is the one that sequential run leaves; so sets of M <=
\* max_size distinct keys from any threads leave all M keys present and size M.
C21_CacheAtomic ==
    /\ Cardinality({t \in Threads : th[t].pc # "idle"}) <= 1
    /\ \A t \in Threads : th[t].pc # "idle" => rlock = t
    /\ Quiescent => cache = Replay(hist)
    /\ cres.op \in {"", "get", "set", "clear", "size"}
    /\ (Quiescent /\ cres.op = "get")
       => cres.value = IF cres.key \in CacheKeys(Replay(hist))
                       THEN CacheGetValue(Replay(hist), cres.key) ELSE <<>>
    /\ (Quiescent /\ cres.op = "size") => cres.size = Len(Replay(hist))
    /\ (/\ Quiescent
        /\ Len(hist) <= max_size
        /\ \A i \in 1..Len(hist) : hist[i].value # <<>>
        /\ \A i, j \in 1..Len(hist) : i # j => hist[i].key # hist[j].key)
       => /\ CacheKeys(cache) = {hist[i].key : i \in 1..Len(hist)}
          /\ Len(cache) = Len(hist)

C21_Witness ==
    /\ th[1].pc = "cset_evict_pop"
    /\ rlock = 1
    /\ cres.thread = 2
    /\ cres.op = "set"
    /\ cres.value # <<>>
    /\ Len(cache) = max_size
    /\ cres.key \in CacheKeys(cache)
    /\ th[1].oldest_key # cres.key

\* C22: vector_search returns at most limit pairs (id, similarity), each id
\* that of a stored vector and returned once, each similarity equal to
\* 1 - distance of that vector from the query and at least min_similarity, in
\* order of non-increasing similarity.
C22_VectorSearch ==
    call.fn = "vector_search"
    => LET q     == call.args[1]
           limit == call.args[2]
           min_similarity == call.args[3]
           r     == call.result
       IN  /\ Len(r) <= limit
           /\ \A k \in 1..Len(r) :
                /\ r[k].memory_id \in DOMAIN db.vec
                /\ r[k].similarity = Unit - Distance(db.vec[r[k].memory_id], q)
                /\ r[k].similarity >= min_similarity
           /\ \A j, k \in 1..Len(r) :
                j < k => /\ r[j].similarity >= r[k].similarity
                         /\ r[j].memory_id # r[k].memory_id

C22_Witness ==
    /\ call.fn = "vector_search"
    /\ Len(call.result) = 1
    /\ call.args[2] = 1
    /\ \E i \in DOMAIN db.vec : Unit - Distance(db.vec[i], call.args[1]) < call.args[3]
    /\ \E i \in DOMAIN db.vec :
          /\ Unit - Distance(db.vec[i], call.args[1]) >= call.args[3]
          /\ call.result[1].memory_id # i
          /\ call.result[1].similarity > Unit - Distance(db.vec[i], call.args[1])

\* row r of store d passes the filters f, read off the stored columns
Passes(d, id, f) ==
    /\ f.priority # "" => d.memories[id].priority = f.priority
    /\ f.tags # <<>> => \E i \in 1..Len(f.tags) :
                           \E j \in 1..Len(d.memories[id].tags) :
                              d.memories[id].tags[j] = f.tags[i]
    /\ f.start # NoTime => f.start <= d.memories[id].created_at
    /\ f.end # NoTime => d.memories[id].created_at <= f.end

\* C23: search_memory returns at most limit memories, each stored, returned
\* once and passing every filter given (priority, any-of tags, inclusive date
\* range), each with similarity to the query at least the retrieval threshold,
\* in order of non-increasing composite score; total is their number.
C23_SearchMemory ==
    call.fn = "search_memory"
    => LET q     == call.args[1]
           limit == call.args[2]
           f     == call.args[3]
           r     == call.result.memories
       IN  /\ Len(r) <= limit
           /\ call.result.total = Len(r)
           /\ \A k \in 1..Len(r) :
                /\ r[k].id \in DOMAIN db.memories
                /\ Passes(db, r[k].id, f)
                /\ Unit - Distance(db.vec[r[k].id], q) >= retrieval_similarity_threshold
                /\ r[k].content = db.memories[r[k].id].content
           /\ \A j, k \in 1..Len(r) :
                j < k => r[j].score >= r[k].score /\ r[j].id # r[k].id

C23_Witness ==
    /\ call.fn = "search_memory"
    /\ call.args[3].end = 1
    /\ call.args[3].tags # <<>>
    /\ call.args[3].priority = "LOW"
    /\ call.args[2] = 1
    /\ call.result.total = 1
    /\ \E i \in DOMAIN db.memories : db.memories[i].created_at = 2 /\ db.memories[i].priority = "LOW"
    /\ \E i \in DOMAIN db.memories :
          /\ i # call.result.memories[1].id
          /\ Passes(db, i, call.args[3])
          /\ Unit - Distance(db.vec[i], call.args[1]) >= retrieval_similarity_threshold
    /\ \E i \in DOMAIN db.memories :
          Unit - Distance(db.vec[i], call.args[1]) < retrieval_similarity_threshold

\* a scored memory without the fields the scoring added
Unscored(m) == [f \in (DOMAIN m) \ {"score", "similarity"} |-> m[f]]

\* the score the result r gives to the candidate m
ScoreIn(r, m) == r[CHOOSE k \in 1..Len(r) : Unscored(r[k]) = m].score

\* C24: score_memories returns exactly the candidates that have an id, each
\* as often as it was given, in order of non-increasing composite score, and
\* candidates of equal composite score stand in their input order.
C24_ScoreMemories ==
    call.fn = "score_memories"
    => LET given == SelectSeq(call.args[1], LAMBDA m : m.id # NoId)
           r     == call.result
           out   == [k \in 1..Len(r) |-> Unscored(r[k])]
       IN  /\ Len(r) = Len(given)
           /\ \A m \in Candidates :
                Cardinality({k \in 1..Len(out) : out[k] = m})
                  = Cardinality({k \in 1..Len(given) : given[k] = m})
           /\ \A j, k \in 1..Len(r) : j < k => r[j].score >= r[k].score
           /\ \A j, k \in 1..Len(r) : out[j] = out[k] => r[j].score = r[k].score
           /\ \A v \in {r[k].score : k \in 1..Len(r)} :
                SelectSeq(given, LAMBDA m : ScoreIn(r, m) = v)
                  = SelectSeq(out, LAMBDA m : ScoreIn(r, m) = v)

\* three candidates given as LOW, (no id), HIGH with similarities under which
\* LOW and HIGH score the same below 1: the result is LOW, HIGH
C24_Witness ==
    /\ call.fn = "score_memories"
    /\ Len(call.args[1]) = 3
    /\ call.args[1][2].id = NoId
    /\ Len(call.result) = 2
    /\ call.result[1].priority = "LOW"
    /\ call.result[2].priority = "HIGH"
    /\ call.result[1].id # call.result[2].id
    /\ call.result[1].score = call.result[2].score
    /\ call.result[1].score < ScoreUnit
    /\ call.args[1][1].priority = "LOW"


\* C25: of two memories in a search result with the same similarity, created_at
\* and access_count, one HIGH and one LOW, the HIGH one stands before the LOW
\* one, whatever the configured weights, provided the priority weight is positive.
C25_HighAboveLow ==
    (call.fn = "search_memory" /\ call.args[4].priority > 0)
    => LET r == call.result.memories
       IN  \A j, k \in 1..Len(r) :
             ( /\ r[j].priority = "HIGH"
               /\ r[k].priority = "LOW"
               /\ r[j].similarity = r[k].similarity
               /\ r[j].created_at = r[k].created_at
               /\ r[j].access_count = r[k].access_count ) => j < k


\* the ids of the rows of the store passing the filters f
Matching(f) == {i \in DOMAIN db.memories : Passes(db, i, f)}

\* C26: list_memories over M rows passing the filters returns
\* min(limit, max(0, M - offset)) of them and sets has_more exactly when
\* M > offset + limit.
C26_ListCount ==
    (call.fn = "list_memories" /\ call.result.success)
    => LET M      == Cardinality(Matching(call.args[1]))
           limit  == call.args[4]
           offset == call.args[5]
           left   == IF M > offset THEN M - offset ELSE 0
       IN  /\ Len(call.result.memories) = (IF limit < left THEN limit ELSE left)
           /\ call.result.has_more <=> (M > offset + limit)
           /\ \A k \in 1..Len(call.result.memories) :
                call.result.memories[k].id \in Matching(call.args[1])

\* two of three rows pass a priority filter; the page of one row at offset 0
\* leaves one more, the page at an offset beyond them is empty
C26_Witness ==
    /\ call.fn = "list_memories"
    /\ call.result.success
    /\ call.args[1].priority = "HIGH"
    /\ Cardinality(DOMAIN db.memories) = 3
    /\ Cardinality(Matching(call.args[1])) = 2
    /\ call.args[4] = 1
    /\ call.args[5] = 1
    /\ call.args[6].first = 0
    /\ Len(call.result.memories) = 1
    /\ ~call.result.has_more

\* the ids a walk has returned, this page included
Walked ==
    call.args[6].seen
      \o [k \in 1..Len(call.result.memories) |-> call.result.memories[k].id]

\* C27: on a store no one writes, the pages at offsets 0, L, 2L, ... of one
\* listing share no memory, whatever the sort key and order and however many
\* rows are equal under the key, and once has_more is unset they hold every
\* matching memory exactly once.
C27_PagesPartition ==
    (call.fn = "list_memories" /\ call.result.success /\ call.args[6].first = 0)
    => /\ \A j, k \in 1..Len(Walked) : j # k => Walked[j] # Walked[k]
       /\ \A k \in 1..Len(Walked) : Walked[k] \in Matching(call.args[1])
       /\ ~call.result.has_more
            => {Walked[k] : k \in 1..Len(Walked)} = Matching(call.args[1])

\* three rows equal under the sort key, listed one per page in descending
\* rowid order: the third page ends the walk
C27_Witness ==
    /\ call.fn = "list_memories"
    /\ call.result.success
    /\ call.args[2] = "access_count"
    /\ call.args[6].ties_desc
    /\ call.args[6].first = 0
    /\ call.args[4] = 1
    /\ call.args[5] = 2
    /\ Walked = <<3, 2, 1>>
    /\ ~call.result.has_more


\* C28: a tag filter selects the same memories when applied in the store
\* (LIKE on the serialised tags) and when applied in process (membership in
\* the tag list), for tags over the alphabet [A-Za-z0-9 _\-.].
C28_SameSelection ==
    call.fn = "tag_filter" => call.result.store = call.result.process

\* C29: a list_memories call whose sort_by is not a column name, or whose
\* sort_order is neither ASC nor DESC, is rejected and leaves the store as it was.
C29_SortValidated ==
    [][(call'.fn = "list_memories" /\ call' # call
          /\ (call'.args[2] \notin Columns \/ call'.args[3] \notin {"ASC", "DESC"}))
         => (~call'.result.success /\ db' = db)]_vars


\* thread t leaves insert_memory in this step
InsertEnds(t) ==
    /\ th[t].pc \in {"store_insert", "store_insert_vec", "store_commit"}
    /\ th'[t].pc = "idle"

C31_PriorityValidated ==
    /\ [](\A d \in {db, tx} : \A i \in DOMAIN d.memories :
             d.memories[i].priority \in {"CORE", "HIGH", "NORMAL", "LOW"})
    /\ [][\A t \in Threads :
             (th[t].pc = "store_insert" /\ Steps(t)
                 /\ th[t].priority \notin {"CORE", "HIGH", "NORMAL", "LOW"})
             => /\ last'.ret = Raise("store_memory", "RuntimeError",
                                     "ValueError: Invalid priority")
                /\ last'.thread = t
                /\ db' = db /\ tx' = tx /\ wlock' = wlock]_vars

C31_Witness ==
    /\ last.ret.cause = "ValueError: Invalid priority"
    /\ InLog("insert_memory", last.calls)
    /\ db.memories # <<>>
    /\ \A i \in DOMAIN db.memories : db.memories[i].priority = "NORMAL"


\* C32: every committed memory has a vector row, the embedding_dimension on
\* its row is the length of that vector and is the dimension configured for
\* the call that stored it; an insert_memory with a valid priority whose
\* embedding is not of the configured length ends in the dimension-mismatch
\* error and writes nothing
C32_DimensionValidated ==
    /\ [](\A i \in DOMAIN db.memories :
             /\ i \in DOMAIN db.vec
             /\ db.memories[i].embedding_dimension = Len(db.vec[i]))
    /\ [][\A t \in Threads :
             (th[t].pc = "store_commit" /\ Steps(t))
             => /\ th[t].memory_id \in DOMAIN db'.memories
                /\ db'.memories[th[t].memory_id].embedding_dimension
                      = th[t].dimension
                /\ Len(db'.vec[th[t].memory_id]) = th[t].dimension]_vars
    /\ [][\A t \in Threads :
             (th[t].pc = "store_insert" /\ Steps(t)
                 /\ th[t].priority \in {"CORE", "HIGH", "NORMAL", "LOW"}
                 /\ Len(th[t].embedding) # th[t].dimension)
             => /\ last'.ret = Raise("store_memory", "RuntimeError",
                                     "ValueError: Embedding dimension mismatch")
                /\ last'.thread = t
                /\ db' = db /\ tx' = tx /\ wlock' = wlock]_vars

C32_Witness ==
    /\ last.ret.cause = "ValueError: Embedding dimension mismatch"
    /\ \E i \in DOMAIN db.memories :
          db.memories[i].embedding_dimension = Len(db.vec[i])


\* C33: a search_memory request whose limit is below 1 or above 100 is
\* rejected by the input validation: the step that takes the request returns
\* the validation error at once, with no embedding computed, no vector search
\* run and no result rows; and no search in progress ever carries such a limit
C33_LimitValidated ==
    /\ [](\A t \in Threads :
             th[t].pc \in {"search_vector", "search_hydrate"}
             => th[t].limit \in 1..100)
    /\ [][\A t \in Threads, q \in Contents \cup {EmptyContent},
             limit \in {-1, 0, 101}, prio \in {"", "NORMAL"} :
             SearchCall(t, q, limit, prio)
             => /\ last'.thread = t
                /\ last'.ret.op = "search_memory"
                /\ last'.ret.error = "ValidationError"
                /\ ~last'.ret.success
                /\ last'.ret.rows = <<>>
                /\ last'.calls = <<>>
                /\ th'[t].pc = "idle"]_vars

C33_Witness ==
    /\ last.ret.op = "search_memory"
    /\ last.ret.error = "ValidationError"
    /\ \E i \in DOMAIN db.memories : i \in DOMAIN db.vec


\* C34: with a corrupt row in the store (its tags column is not JSON),
\* list_memories and search_memory do not fail and return no corrupt row; a
\* listing whose window covers the whole store returns every other row
C34_CorruptSkipped ==
    call.fn \in {"list_memories", "search_memory"}
    => /\ call.result.success
       /\ \A k \in 1..Len(call.result.memories) :
             db.memories[call.result.memories[k].id].tags \notin CorruptTexts
       /\ (call.fn = "list_memories" /\ call.args[2] = 0
              /\ call.args[1] >= Cardinality(DOMAIN db.memories))
          => {call.result.memories[k].id : k \in 1..Len(call.result.memories)}
                = {i \in DOMAIN db.memories : db.memories[i].tags \notin CorruptTexts}

\* C35: get_memory and list_memories return, for a memory stored with a
\* sequence of tags (the empty one included), that sequence: the same tags in
\* the same order
C35_TagsRoundTrip ==
    (call.fn \in {"get_memory", "list_memories"} /\ call.result.success)
    => \A k \in 1..Len(call.result.memories) :
          LET m == call.result.memories[k]
          IN  ~issued[m.id].null => m.tags = issued[m.id]


\* the steps of store_memory the order is claimed of, among the calls of a log
StoreSteps(log) ==
    SelectSeq(log, LAMBDA x : x \in {"check_duplicate_hash", "generate_embedding",
                                     "cache.set", "vector_search", "insert_memory"})

StoreOrder ==
    <<"check_duplicate_hash", "generate_embedding", "cache.set", "vector_search",
      "insert_memory">>

C37_DeleteVersusReaders ==
    /\ [][\A t \in Threads :
             (th[t].pc = "search_hydrate" /\ Steps(t)
                 /\ Head(th[t].pending).memory_id \notin DOMAIN db.memories)
             => /\ db' = db /\ tx' = tx
                /\ IF last'.thread = t
                   THEN /\ last'.ret.op = "search_memory"
                        /\ last'.ret.success
                        /\ last'.ret.error = ""
                        /\ \A k \in 1..Len(last'.ret.rows) :
                              last'.ret.rows[k].id # Head(th[t].pending).memory_id
                   ELSE /\ th'[t].pc = "search_hydrate"
                        /\ th'[t].rows = th[t].rows]_vars
    /\ [][\A t \in Threads :
             (th[t].pc = "get_update" /\ Steps(t) /\ wlock = 0
                 /\ th[t].memory_id \notin DOMAIN db.memories)
             => /\ db' = db /\ tx' = tx
                /\ last'.thread = t
                /\ last'.ret.op = "get_memory"
                /\ last'.ret.success
                /\ last'.ret.error = ""
                /\ last'.ret.rows = th[t].rows]_vars
    /\ [](\A id \in deletedIds : id \notin DOMAIN db.memories /\ id \notin DOMAIN db.vec)

C37_Witness ==
    /\ last.ret.op = "get_memory"
    /\ last.ret.success
    /\ last.ret.memory_id \in deletedIds
    /\ last.ret.rows # <<>>
    /\ InLog("update_access_count", last.calls)

C37_WitnessSearch ==
    /\ last.ret.op = "search_memory"
    /\ last.ret.success
    /\ last.calls = <<"generate_embedding", "vector_search", "get_memory_by_id",
                      "get_memory_by_id">>
    /\ last.ret.rows = <<>>
    /\ Cardinality(deletedIds) = 2


\* the get_memory calls on id that complete in the step
Completing(id) ==
    {t \in Threads : /\ th[t].pc = "get_update"
                     /\ th[t].memory_id = id
                     /\ last'.thread = t
                     /\ last'.ret.op = "get_memory"
                     /\ last'.ret.success}

\* C38: no increment of the access count is lost. Every step raises the
\* access_count of every stored memory by the number of get_memory calls on
\* it that complete in the step, one or none, whatever the count was when the
\* call read the row; hence after k completed calls on a memory, in any
\* interleaving and without a delete, its count is k higher
C38_NoLostIncrement ==
    [][\A id \in DOMAIN db.memories :
          /\ id \in DOMAIN db'.memories
          /\ Cardinality(Completing(id)) <= 1
          /\ db'.memories[id].access_count
                = db.memories[id].access_count + Cardinality(Completing(id))]_vars

C38_Witness ==
    /\ last.ret.op = "get_memory"
    /\ last.ret.success
    /\ last.ret.rows # <<>>
    /\ last.ret.rows[1].access_count = 0
    /\ last.ret.memory_id \in DOMAIN db.memories
    /\ db.memories[last.ret.memory_id].access_count = 2


\* C39: a delete_memory call removes at most one memory. Its commit removes
\* from both tables the memory whose id it returns with success, and no
\* other: every other row and vector row is as before and nothing is added;
\* without success it returns no id and removes no memory. No other step of
\* the call changes the committed store. A call given both a memory_id and a
\* content hash deletes by the memory_id and does not look the hash up
C39_DeleteOne ==
    /\ [][\A t \in Threads :
             (th[t].pc = "delete_commit" /\ Steps(t))
             => LET id == th[t].memory_id
                IN  /\ last'.thread = t
                    /\ last'.ret.op = "delete_memory"
                    /\ DOMAIN db'.memories \subseteq DOMAIN db.memories
                    /\ DOMAIN db'.vec \subseteq DOMAIN db.vec
                    /\ \A i \in DOMAIN db.memories \ {id} :
                          i \in DOMAIN db'.memories /\ db'.memories[i] = db.memories[i]
                    /\ \A i \in DOMAIN db.vec \ {id} :
                          i \in DOMAIN db'.vec /\ db'.vec[i] = db.vec[i]
                    /\ IF last'.ret.success
                       THEN /\ last'.ret.memory_id = id
                            /\ id \in DOMAIN db.memories
                            /\ id \notin DOMAIN db'.memories
                            /\ id \notin DOMAIN db'.vec
                       ELSE /\ last'.ret.memory_id = NoId
                            /\ db'.memories = db.memories]_vars
    /\ [][\A t \in Threads :
             (th[t].pc \in {"delete_vec", "delete_row"} /\ Steps(t)) => db' = db]_vars
    /\ [][\A t \in Threads, mid \in 1..MaxId, c \in Contents \cup {EmptyContent} :
             DeleteCall(t, mid, c)
             => /\ th'[t].pc = "delete_vec"
                /\ th'[t].memory_id = mid
                /\ calls'[t] = <<>>
                /\ db' = db]_vars

C39_Witness ==
    /\ last.ret.op = "delete_memory"
    /\ last.ret.success
    /\ last.ret.memory_id = 1
    /\ DOMAIN db.memories = {2}
    /\ DOMAIN db.vec = {2}


====
